---- MODULE Spec2Model ----
(***************************************************************************)
(* A model of the BTEB result service: the gradesheet parser               *)
(* (parse_pdf_results), the transfer step that normalises parsed GPA       *)
(* values and writes them in batches, and the multi-project resolver       *)
(* (search_student_across_projects with the /api/search-result handler).   *)
(*                                                                         *)
(* Text is modelled as sequences of one-character strings, Python's None   *)
(* as the record None, a Python dict as a record, and a float as the       *)
(* decimal [m, e] standing for m / 10^e.                                   *)
(***************************************************************************)
EXTENDS Integers, Sequences, FiniteSets, TLC

\* ------------------------------------------------------------------ bounds
\* number of stores named in the configured search order
NumStores == 3

\* ------------------------------------------------------- Python-like values
None == [isNone |-> TRUE]

\* bool(d) of an Optional[dict]: None and the empty dict are falsy
Truthy(d) == d # None /\ DOMAIN d # {}

HasKey(d, k) == k \in DOMAIN d

REF == <<"r", "e", "f">>

Range(s) == {s[i] : i \in 1..Len(s)}

\* ------------------------------------------------------------ configuration
\* the project names of supabase_projects.json, in their configured order
ProjectNames == <<"primary", "secondary", "tertiary", "backup1", "backup2">>

ConfiguredOrder == SubSeq(ProjectNames, 1, NumStores)

StoreSet == Range(ConfiguredOrder)

WebApiSentinel == "web_apis"

\* WebAPIFallback.web_apis: the configured descriptor, and the second descriptor
\* the constructor lists as the way to add more (web_api_fallback.py 17-41)
WebApis == << [name |-> "btebresulthub", priority |-> 1],
              [name |-> "another_api", priority |-> 2] >>

\* sorted(self.web_apis, key=lambda x: x['priority']): a stable insertion sort
RECURSIVE InsertByPriority(_, _)
InsertByPriority(sorted, api) ==
    IF sorted = <<>> THEN <<api>>
    ELSE IF Head(sorted).priority <= api.priority
         THEN <<Head(sorted)>> \o InsertByPriority(Tail(sorted), api)
         ELSE <<api>> \o sorted

\* the descriptors taken from the end of the list
RECURSIVE ReverseOrder(_)
ReverseOrder(apis) ==
    IF apis = <<>> THEN <<>>
    ELSE <<apis[Len(apis)]>> \o ReverseOrder(SubSeq(apis, 1, Len(apis) - 1))

RECURSIVE SortByPriority(_)
SortByPriority(apis) ==
    IF apis = <<>> THEN <<>>
    ELSE InsertByPriority(SortByPriority(SubSeq(apis, 1, Len(apis) - 1)),
                          apis[Len(apis)])

\* --------------------------------------------------------------- text, float
DigitChars == <<"0", "1", "2", "3", "4", "5", "6", "7", "8", "9">>

IsDigit(c) == c \in Range(DigitChars)

DigitVal(c) == (CHOOSE i \in 1..10 : DigitChars[i] = c) - 1

RECURSIVE Pow10(_)
Pow10(e) == IF e = 0 THEN 1 ELSE 10 * Pow10(e - 1)

\* str(n) of a natural number
RECURSIVE NatStr(_)
NatStr(n) == IF n < 10 THEN <<DigitChars[n + 1]>>
             ELSE NatStr(n \div 10) \o <<DigitChars[(n % 10) + 1]>>

\* the text matches [\d.]+ : a non-empty run of digits and dots
IsNumberText(txt) ==
    Len(txt) > 0 /\ \A i \in 1..Len(txt) : IsDigit(txt[i]) \/ txt[i] = "."

CountDots(txt) == Cardinality({i \in 1..Len(txt) : txt[i] = "."})

\* float(txt) succeeds on a [\d.]+ or "ref"-like text: digits with at most one dot
\* ("3.76", "4", "3.", ".5"); ".", "3.7.6" and "ref"-like words raise ValueError
FloatOk(txt) ==
    /\ IsNumberText(txt)
    /\ CountDots(txt) <= 1
    /\ \E i \in 1..Len(txt) : IsDigit(txt[i])

RECURSIVE DigitsValue(_)
DigitsValue(ds) == IF ds = <<>> THEN 0
                   ELSE 10 * DigitsValue(SubSeq(ds, 1, Len(ds) - 1)) + DigitVal(ds[Len(ds)])

RECURSIVE NormFloat(_)
NormFloat(f) == IF f.e > 0 /\ f.m % 10 = 0
                THEN NormFloat([m |-> f.m \div 10, e |-> f.e - 1])
                ELSE f

\* float(txt) for a text with FloatOk: the decimal m / 10^e, trailing zeros dropped
Float(txt) ==
    LET dot == IF CountDots(txt) = 0 THEN Len(txt) + 1
               ELSE CHOOSE i \in 1..Len(txt) : txt[i] = "."
        ds  == SelectSeq(txt, IsDigit)
    IN  NormFloat([m |-> DigitsValue(ds), e |-> Len(txt) + 1 - dot - (IF dot <= Len(txt) THEN 1 ELSE 0)])

\* a range test that accepts every number
FloatInRangeAny(f) == TRUE

\* 0.0 <= f <= 4.0
FloatInRange(f) == 0 <= f.m /\ f.m <= 4 * Pow10(f.e)

RECURSIVE ZeroPad(_, _)
ZeroPad(txt, width) == IF Len(txt) >= width THEN txt ELSE ZeroPad(<<"0">> \o txt, width)

\* str(f) of a float: the shortest decimal, always with a fractional part
FloatStr(f) ==
    NatStr(f.m \div Pow10(f.e)) \o <<".">> \o
    (IF f.e = 0 THEN <<"0">> ELSE ZeroPad(NatStr(f.m % Pow10(f.e)), f.e))


\* ----------------------------------------------------- insertion-ordered dict
\* a Python dict: its keys in insertion order and the value of each key
EmptyDict == [keys |-> <<>>, val |-> <<>>]

DictHas(d, k) == k \in Range(d.keys)

DictGet(d, k) == d.val[k]

\* d[k] = v
DictSet(d, k, v) ==
    IF DictHas(d, k) THEN [d EXCEPT !.val[k] = v]
    ELSE [keys |-> Append(d.keys, k), val |-> (k :> v) @@ d.val]

\* list(d.keys())[-1]
DictLastKey(d) == d.keys[Len(d.keys)]

DictLen(d) == Len(d.keys)

\* ------------------------------------------------------------- gradesheet text
(***************************************************************************)
(* A line of the extracted text is a sequence of tokens.  The layout the   *)
(* regular expressions see: "," and ")" follow the token before them       *)
(* directly; a roll number marked glued follows a ")" directly, as in      *)
(* "gpa1: 3.36)700022"; every other token is preceded by white space or    *)
(* starts the line.  A roll number has 6 to 8 digits, a subject code 5.    *)
(***************************************************************************)
TInst(code, name, district) == [k |-> "inst", code |-> code, name |-> name, district |-> district]
TRoll(n)     == [k |-> "roll", n |-> n, glued |-> FALSE]
TRollGlued(n) == [k |-> "roll", n |-> n, glued |-> TRUE]
TLp          == [k |-> "lp"]
TRp          == [k |-> "rp"]
TRb          == [k |-> "rb"]
TComma       == [k |-> "comma"]
TLbl(n)      == [k |-> "lbl", n |-> n]
TVal(txt)    == [k |-> "val", txt |-> txt]
TRefSub      == [k |-> "refsub"]
TSubj(code)  == [k |-> "subj", code |-> code]
\* a subject code cut before its ")" by [^)]* : "28542(T"
TSubjCut(code) == [k |-> "subjcut", code |-> code]

MinSemester == 1
MaxSemester == 8

\* the value alternative ([\d.]+|ref) of the gpa patterns
IsGpaText(txt) == IsNumberText(txt) \/ txt = REF

\* re.search(r'(\d{5})\s*-\s*([^,]+),\s*([A-Za-z\s]+)', line): the first header
HasInst(line) == \E i \in 1..Len(line) : line[i].k = "inst"

InstMatch(line) == line[CHOOSE i \in 1..Len(line) :
                          line[i].k = "inst" /\ \A j \in 1..(i - 1) : line[j].k # "inst"]

\* the token holds a ")"
HasCloseParen(tok) == tok.k \in {"rp", "subj"}

\* the first token at or after i holding a ")", or Len(line) + 1
RECURSIVE FirstClose(_, _)
FirstClose(line, i) ==
    IF i > Len(line) THEN i
    ELSE IF HasCloseParen(line[i]) THEN i ELSE FirstClose(line, i + 1)

\* re.findall(r'(\d{6,8})\s*[\(\{]([^)]*)', line) from token i on
RECURSIVE StudentMatchesFrom(_, _)
StudentMatchesFrom(line, i) ==
    IF i >= Len(line) THEN <<>>
    ELSE IF line[i].k = "roll" /\ line[i + 1].k = "lp"
         THEN LET close == FirstClose(line, i + 2)
                  cut   == IF close <= Len(line) /\ line[close].k = "subj"
                           THEN <<TSubjCut(line[close].code)>> ELSE <<>>
              IN  <<[roll |-> line[i].n, data |-> SubSeq(line, i + 2, close - 1) \o cut]>>
                  \o StudentMatchesFrom(line, close + 1)
         ELSE StudentMatchesFrom(line, i + 1)

StudentMatches(line) == StudentMatchesFrom(line, 1)

\* re.findall(r'gpa(\d+):\s*([\d.]+|ref)(?:\)|,|\s|$)', text) from token i on
RECURSIVE GpaMatchesFrom(_, _)
GpaMatchesFrom(toks, i) ==
    IF i >= Len(toks) THEN <<>>
    ELSE IF toks[i].k = "lbl" /\ toks[i + 1].k = "val" /\ IsGpaText(toks[i + 1].txt)
         THEN <<[sem |-> toks[i].n, gpa |-> toks[i + 1].txt]>> \o GpaMatchesFrom(toks, i + 2)
         ELSE GpaMatchesFrom(toks, i + 1)

GpaMatches(toks) == GpaMatchesFrom(toks, 1)

\* [s.strip() for s in subs.split(',') if s.strip()]
RECURSIVE SplitItems(_)
SplitItems(toks) ==
    IF toks = <<>> THEN <<>>
    ELSE LET n == IF \E i \in 1..Len(toks) : toks[i].k = "comma"
                  THEN CHOOSE i \in 1..Len(toks) :
                          toks[i].k = "comma" /\ \A j \in 1..(i - 1) : toks[j].k # "comma"
                  ELSE Len(toks) + 1
             item == SubSeq(toks, 1, n - 1)
             rest == SubSeq(toks, n + 1, Len(toks))
         IN  (IF item = <<>> THEN <<>> ELSE <<item>>) \o SplitItems(rest)

\* re.search(r'ref_sub:\s*([^}]+)', text), then the split of its group
RefSubItems(toks) ==
    IF \E i \in 1..Len(toks) : toks[i].k = "refsub"
    THEN LET r == CHOOSE i \in 1..Len(toks) :
                     toks[i].k = "refsub" /\ \A j \in 1..(i - 1) : toks[j].k # "refsub"
             after == SubSeq(toks, r + 1, Len(toks))
             stop == IF \E i \in 1..Len(after) : after[i].k = "rb"
                     THEN CHOOSE i \in 1..Len(after) :
                             after[i].k = "rb" /\ \A j \in 1..(i - 1) : after[j].k # "rb"
                     ELSE Len(after) + 1
         IN  SplitItems(SubSeq(after, 1, stop - 1))
    ELSE <<>>


\* ------------------------------------------------------------------ the parser
\* institutes[current_inst]["students"][roll] = {"gpas": {}, "ref_subjects": []};
\* incomplete_gpa = 0 stands for the absent key "incomplete_gpa"
NewStudent == [gpas |-> EmptyDict, ref_subjects |-> <<>>, incomplete_gpa |-> 0]

NewInstitute(name, district) == [name |-> name, district |-> district, students |-> EmptyDict]

\* a check that lets every label through
SemInRangeAny(n) == n \in Nat

\* if 1 <= sem_num <= 8 (nn.py 368, 429, 456, 506)
SemInRange(n) == MinSemester <= n /\ n <= MaxSemester

\* students[roll]["gpas"][sem] = gpa
SetGpa(students, roll, sem, gpa) ==
    DictSet(students, roll,
            [DictGet(students, roll) EXCEPT !.gpas = DictSet(@, sem, gpa)])

SetIncomplete(students, roll, sem) ==
    DictSet(students, roll, [DictGet(students, roll) EXCEPT !.incomplete_gpa = sem])

ExtendRefSubjects(students, roll, items) ==
    DictSet(students, roll,
            [DictGet(students, roll) EXCEPT !.ref_subjects = @ \o items])

\* the loop over gpa_matches of one student block (nn.py 366-378)
RECURSIVE BlockGpas(_, _, _)
BlockGpas(students, roll, matches) ==
    IF matches = <<>> THEN students
    ELSE LET m == Head(matches)
             next == IF SemInRange(m.sem)
                     THEN IF m.gpa = <<>>
                          THEN SetIncomplete(students, roll, m.sem)
                          ELSE SetGpa(students, roll, m.sem, m.gpa)
                     ELSE students
         IN  BlockGpas(next, roll, Tail(matches))

\* the loop over student_matches (nn.py 356-390)
RECURSIVE ProcessBlocks(_, _)
ProcessBlocks(students, matches) ==
    IF matches = <<>> THEN students
    ELSE LET m  == Head(matches)
             s1 == IF DictHas(students, m.roll) THEN students
                   ELSE DictSet(students, m.roll, NewStudent)
             s2 == BlockGpas(s1, m.roll, GpaMatches(m.data))
             s3 == ExtendRefSubjects(s2, m.roll, RefSubItems(m.data))
         IN  ProcessBlocks(s3, Tail(matches))

\* the digits and dots a token starts with, for ^\s*([\d.]+)
LeadingNumberText(tok) ==
    IF tok.k = "val" /\ IsNumberText(tok.txt) THEN tok.txt
    ELSE IF tok.k = "roll" THEN NatStr(tok.n)
    ELSE IF tok.k \in {"subj", "subjcut"} THEN tok.code
    ELSE <<>>

\* re.search(r'([\d.]+),\s*ref_sub:', line): the index of its number, or 0
GpaWithContext(line) ==
    LET hits == {i \in 1..(Len(line) - 2) :
                    /\ line[i].k = "val" /\ IsNumberText(line[i].txt)
                    /\ line[i + 1].k = "comma" /\ line[i + 2].k = "refsub"}
    IN  IF hits = {} THEN 0 ELSE CHOOSE i \in hits : \A j \in hits : i <= j

\* continuation of an incomplete gpa of the last student (nn.py 394-420)
ResolveIncomplete(students, line) ==
    IF DictLen(students) = 0 THEN students
    ELSE LET last_roll == DictLastKey(students)
             incomplete_sem == DictGet(students, last_roll).incomplete_gpa
         IN  IF incomplete_sem = 0 THEN students
             ELSE LET lead == LeadingNumberText(line[1])
                      s1 == IF lead # <<>>
                            THEN SetIncomplete(SetGpa(students, last_roll, incomplete_sem, lead),
                                               last_roll, 0)
                            ELSE students
                      c  == GpaWithContext(line)
                  IN  IF c # 0
                      THEN SetIncomplete(SetGpa(s1, last_roll, incomplete_sem, line[c].txt),
                                         last_roll, 0)
                      ELSE s1

\* re.findall(r'gpa(\d+):\s*([\d.]+|ref)\)?(\d+)?', line) from token i on;
\* next_roll = 0 stands for the empty group
RECURSIVE GpaContinuationFrom(_, _)
GpaContinuationFrom(line, i) ==
    IF i >= Len(line) THEN <<>>
    ELSE IF line[i].k = "lbl" /\ line[i + 1].k = "val" /\ IsGpaText(line[i + 1].txt)
         THEN LET glued == /\ i + 3 <= Len(line)
                           /\ line[i + 2].k = "rp"
                           /\ line[i + 3].k = "roll" /\ line[i + 3].glued
              IN  <<[sem |-> line[i].n, gpa |-> line[i + 1].txt,
                     next_roll |-> IF glued THEN line[i + 3].n ELSE 0]>>
                  \o GpaContinuationFrom(line, IF glued THEN i + 4 ELSE i + 2)
         ELSE GpaContinuationFrom(line, i + 1)

\* for roll in reversed(student_rolls): if int(roll) < int(next_roll): ...; break
RollBefore(students, next_roll) ==
    LET idx == {i \in 1..Len(students.keys) : students.keys[i] < next_roll}
    IN  IF idx = {} THEN 0
        ELSE students.keys[CHOOSE i \in idx : \A j \in idx : j <= i]

\* the loop over gpa_continuation_matches (nn.py 427-448)
RECURSIVE ApplyContinuations(_, _)
ApplyContinuations(students, matches) ==
    IF matches = <<>> THEN students
    ELSE LET m == Head(matches)
             next ==
                IF SemInRange(m.sem) /\ m.gpa # <<>>
                THEN IF m.next_roll # 0
                     THEN LET roll == RollBefore(students, m.next_roll)
                          IN  IF roll # 0 THEN SetGpa(students, roll, m.sem, m.gpa)
                              ELSE students
                     ELSE IF DictLen(students) > 0
                          THEN SetGpa(students, DictLastKey(students), m.sem, m.gpa)
                          ELSE students
                ELSE students
         IN  ApplyContinuations(next, Tail(matches))

\* re.search(r'([\d.]+),\s*gpa(\d+):\s*([\d.]+|ref)', line): the index of its
\* first number, or 0
ContinuationPattern(line) ==
    LET hits == {i \in 1..(Len(line) - 3) :
                    /\ line[i].k = "val" /\ IsNumberText(line[i].txt)
                    /\ line[i + 1].k = "comma"
                    /\ line[i + 2].k = "lbl"
                    /\ line[i + 3].k = "val" /\ IsGpaText(line[i + 3].txt)}
    IN  IF hits = {} THEN 0 ELSE CHOOSE i \in hits : \A j \in hits : i <= j

\* the "enhanced continuation pattern" (nn.py 452-472); the previous value is
\* written only to a semester max(keys) that is not a key, which never is
ApplyContinuationPattern(students, line) ==
    LET c == ContinuationPattern(line)
    IN  IF c = 0 THEN students
        ELSE LET sem_num == line[c + 2].n
                 gpa == line[c + 3].txt
             IN  IF SemInRange(sem_num) /\ DictLen(students) > 0
                 THEN SetGpa(students, DictLastKey(students), sem_num, gpa)
                 ELSE students


\* re.search(r'^\s*([\d.]+)(?:,\s*(?:ref_sub|\})|\))', line) matches
ContinuationGpaMatch(line) ==
    /\ Len(line) >= 2
    /\ line[1].k = "val" /\ IsNumberText(line[1].txt)
    /\ \/ line[2].k = "rp"
       \/ /\ Len(line) >= 3
          /\ line[2].k = "comma"
          /\ line[3].k \in {"refsub", "rb"}

\* the last semester missing below the highest one
HighestGap(gpas) ==
    LET top  == CHOOSE m \in Range(gpas.keys) : \A k \in Range(gpas.keys) : k <= m
        gaps == {sem \in 1..top : ~DictHas(gpas, sem)}
    IN  IF gaps = {} THEN 0 ELSE CHOOSE g \in gaps : \A h \in gaps : h <= g

\* for sem in range(1, max(existing_semesters) + 1): if sem not in ...: break
LowestGap(gpas) ==
    LET top  == CHOOSE m \in Range(gpas.keys) : \A k \in Range(gpas.keys) : k <= m
        gaps == {sem \in 1..top : ~DictHas(gpas, sem)}
    IN  IF gaps = {} THEN 0 ELSE CHOOSE g \in gaps : \A h \in gaps : g <= h

\* a value at the start of a continuation line (nn.py 476-500)
ApplyContinuationGpa(students, line) ==
    IF ContinuationGpaMatch(line) /\ DictLen(students) > 0
    THEN LET gpa_value == line[1].txt
             last_roll == DictLastKey(students)
             last_student == DictGet(students, last_roll)
         IN  IF last_student.incomplete_gpa # 0
             THEN SetIncomplete(
                      SetGpa(students, last_roll, last_student.incomplete_gpa, gpa_value),
                      last_roll, 0)
             ELSE IF DictLen(last_student.gpas) > 0 /\ LowestGap(last_student.gpas) # 0
                  THEN SetGpa(students, last_roll, LowestGap(last_student.gpas), gpa_value)
                  ELSE students
    ELSE students

\* the loop over standalone_gpa_matches (nn.py 503-512)
RECURSIVE ApplyStandalone(_, _)
ApplyStandalone(students, matches) ==
    IF matches = <<>> THEN students
    ELSE LET m == Head(matches)
             next ==
                IF SemInRange(m.sem) /\ DictLen(students) > 0 /\ m.gpa # <<>>
                THEN LET last_roll == DictLastKey(students)
                     IN  IF ~DictHas(DictGet(students, last_roll).gpas, m.sem)
                         THEN SetGpa(students, last_roll, m.sem, m.gpa)
                         ELSE students
                ELSE students
         IN  ApplyStandalone(next, Tail(matches))

\* "ref_sub: ..." on the line goes to the most recent student (nn.py 516-526)
ApplyRefContinuation(students, line) ==
    IF (\E i \in 1..Len(line) : line[i].k = "refsub") /\ DictLen(students) > 0
    THEN ExtendRefSubjects(students, DictLastKey(students), RefSubItems(line))
    ELSE students

\* a token that follows its predecessor with no white space and is no ","
IsGluedTail(tok) == tok.k = "rp" \/ (tok.k = "roll" /\ tok.glued)

RECURSIVE GluedTail(_, _)
GluedTail(line, i) ==
    IF i > Len(line) \/ ~IsGluedTail(line[i]) THEN <<>>
    ELSE <<line[i]>> \o GluedTail(line, i + 1)

\* re.findall(r'(\d+\([TP]\)[^,\s]*)', line) from token i on
RECURSIVE SubjectsFrom(_, _)
SubjectsFrom(line, i) ==
    IF i > Len(line) THEN <<>>
    ELSE IF line[i].k = "subj"
         THEN LET tail == GluedTail(line, i + 1)
              IN  <<(<<line[i]>> \o tail)>> \o SubjectsFrom(line, i + 1 + Len(tail))
         ELSE SubjectsFrom(line, i + 1)

\* subject codes on the line go to the most recent student (nn.py 529-539)
ApplySubjects(students, line) ==
    LET subjects == SubjectsFrom(line, 1)
    IN  IF subjects # <<>> /\ DictLen(students) > 0
        THEN ExtendRefSubjects(students, DictLastKey(students), subjects)
        ELSE students

\* everything one student line does to the students of the current institute
ProcessStudentLine(students, line) ==
    LET s1 == ProcessBlocks(students, StudentMatches(line))
        s2 == ResolveIncomplete(s1, line)
        s3 == ApplyContinuations(s2, GpaContinuationFrom(line, 1))
        s4 == ApplyContinuationPattern(s3, line)
        s5 == ApplyContinuationGpa(s4, line)
        s6 == ApplyStandalone(s5, GpaMatches(line))
        s7 == ApplyRefContinuation(s6, line)
    IN  ApplySubjects(s7, line)

NoInst == ""

\* the state before the first line (nn.py 303-307)
ParseStart == [institutes |-> EmptyDict, current_inst |-> NoInst]

\* one iteration of the loop over the lines (nn.py 327-539)
ProcessLine(st, line) ==
    IF line = <<>> THEN st
    ELSE IF HasInst(line)
    THEN LET h == InstMatch(line)
         IN  [institutes |-> DictSet(st.institutes, h.code, NewInstitute(h.name, h.district)),
              current_inst |-> h.code]
    ELSE IF st.current_inst # NoInst
    THEN LET inst == DictGet(st.institutes, st.current_inst)
         IN  [st EXCEPT !.institutes =
                 DictSet(@, st.current_inst,
                         [inst EXCEPT !.students = ProcessStudentLine(@, line)])]
    ELSE st

\* list(set(ref_subjects)) and the removal of "incomplete_gpa" (nn.py 545-569)
CleanStudent(student) ==
    [gpas |-> student.gpas, ref_subjects |-> Range(student.ref_subjects)]

CleanInstitute(inst) ==
    [inst EXCEPT !.students =
        [keys |-> @.keys, val |-> [r \in DOMAIN @.val |-> CleanStudent(@.val[r])]]]

CleanUp(institutes) ==
    [keys |-> institutes.keys,
     val  |-> [c \in DOMAIN institutes.val |-> CleanInstitute(institutes.val[c])]]

RECURSIVE ParseLines(_, _)
ParseLines(st, lines) ==
    IF lines = <<>> THEN st ELSE ParseLines(ProcessLine(st, Head(lines)), Tail(lines))

\* parse_pdf_results on the extracted text
ParseText(lines) == CleanUp(ParseLines(ParseStart, lines).institutes)

\* the file: not there, there but PdfReader or extract_text raises, or read
Missing == "missing"
Unreadable == "unreadable"
Readable == "readable"

\* parse_pdf_results(pdf_path): {} for a file that is missing or cannot be read
\* (nn.py 280-301), else the parse of its text
ParsePdfResults(src, lines) ==
    IF src = Missing THEN EmptyDict
    ELSE IF src = Unreadable THEN EmptyDict
    ELSE ParseText(lines)

\* a test that lets an empty mapping through
NoInstitutesNever(institutes) == FALSE

\* if not institutes (bteb_transfer.py 571, nn.py 591)
NoInstitutes(institutes) == DictLen(institutes) = 0


\* ------------------------------------------------- transfer: the operation list
\* the program and regulation year the gradesheet is ingested under
Program == "Diploma in Engineering"
Regulation == "2022"

\* data["ref_subjects"] or []
OrEmpty(refs) == refs

\* a record that keeps the student's referred subjects on a numeric semester
GpaDataKeepsSubjects(inst_code, roll, sem, gpa_value, ref_subjects) ==
    IF gpa_value = REF
    THEN [program_name |-> Program, regulation_year |-> Regulation,
          institute_code |-> inst_code, roll_number |-> roll, semester |-> sem,
          gpa |-> None, is_reference |-> TRUE, ref_subjects |-> OrEmpty(ref_subjects)]
    ELSE IF FloatOk(gpa_value)
    THEN IF FloatInRange(Float(gpa_value))
         THEN [program_name |-> Program, regulation_year |-> Regulation,
               institute_code |-> inst_code, roll_number |-> roll, semester |-> sem,
               gpa |-> Float(gpa_value), is_reference |-> FALSE,
               ref_subjects |-> OrEmpty(ref_subjects)]
         ELSE None
    ELSE None

\* the record built for one (semester, value) of a student, or None when the
\* value is dropped (bteb_transfer.py 626-664)
GpaData(inst_code, roll, sem, gpa_value, ref_subjects) ==
    IF gpa_value = REF
    THEN [program_name |-> Program, regulation_year |-> Regulation,
          institute_code |-> inst_code, roll_number |-> roll, semester |-> sem,
          gpa |-> None, is_reference |-> TRUE, ref_subjects |-> OrEmpty(ref_subjects)]
    ELSE IF FloatOk(gpa_value)
    THEN IF FloatInRange(Float(gpa_value))
         THEN [program_name |-> Program, regulation_year |-> Regulation,
               institute_code |-> inst_code, roll_number |-> roll, semester |-> sem,
               gpa |-> Float(gpa_value), is_reference |-> FALSE, ref_subjects |-> {}]
         ELSE None
    ELSE None

\* the 'gpa' operations of one student, in the order of data["gpas"].items()
RECURSIVE GpaOps(_, _, _, _)
GpaOps(inst_code, roll, student, sems) ==
    IF sems = <<>> THEN <<>>
    ELSE LET d == GpaData(inst_code, roll, Head(sems),
                          DictGet(student.gpas, Head(sems)), student.ref_subjects)
         IN  (IF d = None THEN <<>> ELSE <<[type |-> "gpa", data |-> d]>>)
             \o GpaOps(inst_code, roll, student, Tail(sems))

RECURSIVE StudentOps(_, _, _)
StudentOps(inst_code, students, rolls) ==
    IF rolls = <<>> THEN <<>>
    ELSE LET roll == Head(rolls)
             student == DictGet(students, roll)
         IN  <<[type |-> "student",
                data |-> [program_name |-> Program, regulation_year |-> Regulation,
                          institute_code |-> inst_code, roll_number |-> roll]]>>
             \o GpaOps(inst_code, roll, student, student.gpas.keys)
             \o StudentOps(inst_code, students, Tail(rolls))

RECURSIVE InstituteOps(_, _)
InstituteOps(institutes, codes) ==
    IF codes = <<>> THEN <<>>
    ELSE LET inst_code == Head(codes)
             inst_data == DictGet(institutes, inst_code)
         IN  <<[type |-> "institute",
                data |-> [program_name |-> Program, regulation_year |-> Regulation,
                          institute_code |-> inst_code,
                          name |-> inst_data.name, district |-> inst_data.district]]>>
             \o StudentOps(inst_code, inst_data.students, inst_data.students.keys)
             \o InstituteOps(institutes, Tail(codes))

\* batch_data of transfer_pdf_to_supabase (bteb_transfer.py 578-664)
BatchData(institutes) ==
    << [type |-> "program", data |-> [name |-> Program]],
       [type |-> "regulation", data |-> [program_name |-> Program, year |-> Regulation]] >>
    \o InstituteOps(institutes, institutes.keys)

\* gpa_data of one student in transfer_pdf_to_firestore (nn.py 622-647): the
\* entries kept, each {"semester", "gpa", "ref_subjects"} with gpa "ref" or a float
FirestoreGpaEntry(sem, gpa_value, ref_subjects) ==
    IF gpa_value = REF
    THEN [semester |-> sem, gpa |-> [text |-> REF], ref_subjects |-> OrEmpty(ref_subjects)]
    ELSE IF FloatOk(gpa_value)
    THEN IF FloatInRange(Float(gpa_value))
         THEN [semester |-> sem, gpa |-> Float(gpa_value), ref_subjects |-> {}]
         ELSE None
    ELSE None

FirestoreGpaData(student) ==
    {FirestoreGpaEntry(sem, DictGet(student.gpas, sem), student.ref_subjects) :
        sem \in Range(student.gpas.keys)} \ {None}

\* ------------------------------------------------------------------ the store
TableNames == <<"programs", "regulations", "institutes", "students", "gpa_records", "cgpa_records">>

\* the operation type batch_write_to_supabase files under each table
TableOfType(type) ==
    CASE type = "program" -> "programs"
      [] type = "regulation" -> "regulations"
      [] type = "institute" -> "institutes"
      [] type = "student" -> "students"
      [] type = "gpa" -> "gpa_records"
      [] type = "cgpa" -> "cgpa_records"
      [] OTHER -> "none"

\* the on_conflict columns of each upsert
ConflictKey(table, row) ==
    CASE table = "programs" -> <<row.name>>
      [] table = "regulations" -> <<row.program_name, row.year>>
      [] table = "institutes" -> <<row.program_name, row.regulation_year, row.institute_code>>
      [] table = "students" ->
            <<row.program_name, row.regulation_year, row.institute_code, row.roll_number>>
      [] table = "gpa_records" ->
            <<row.program_name, row.regulation_year, row.institute_code, row.roll_number,
              row.semester>>
      [] table = "cgpa_records" ->
            <<row.program_name, row.regulation_year, row.institute_code, row.roll_number>>

EmptyDB == [t \in Range(TableNames) |-> {}]

\* a row with one more column, which tells a second copy from the first
Copy(row, n) == [f \in DOMAIN row \cup {"copy"} |-> IF f = "copy" THEN n ELSE row[f]]

\* an insert that adds a second row where a row with the conflict key exists
UpsertAppends(rows, table, new) ==
    rows \cup {IF \E r \in rows : ConflictKey(table, r) = ConflictKey(table, new[i])
               THEN Copy(new[i], 2) ELSE new[i] : i \in DOMAIN new}

\* supabase.table(t).upsert(rows, on_conflict=...)
RECURSIVE Upsert(_, _, _)
Upsert(rows, table, new) ==
    IF new = <<>> THEN rows
    ELSE Upsert({r \in rows : ConflictKey(table, r) # ConflictKey(table, Head(new))}
                    \cup {Head(new)},
                table, Tail(new))

\* the rows of one table among the operations of a batch
RowsFor(batch, table) ==
    LET ops == SelectSeq(batch, LAMBDA op : TableOfType(op.type) = table)
    IN  [i \in 1..Len(ops) |-> ops[i].data]

\* the tables of a batch written before the upsert of table number fail_at raises
\* (fail_at = Len(TableNames) + 1: none raises)
RECURSIVE WriteTables(_, _, _, _)
WriteTables(tables, batch, t, fail_at) ==
    IF t > Len(TableNames) \/ t >= fail_at THEN tables
    ELSE WriteTables([tables EXCEPT ![TableNames[t]] = Upsert(@, TableNames[t], RowsFor(batch, TableNames[t]))],
                     batch, t + 1, fail_at)

\* ----------------------------------------------------------- the Firestore store
Collections == {"institutes", "students"}

EmptyFs == [c \in Collections |-> {}]

\* the document an operation sets: the collection, the parts of the document id
\* f"{program}_{regulation}_{inst_code}[_{roll}]" and the data; no document for
\* any other type (nn.py 152-162, 216-226)
DocOf(op) ==
    IF op.type = "institute"
    THEN <<[collection |-> "institutes",
            doc |-> [id |-> <<Program, Regulation, op.inst_code>>, data |-> op.data]]>>
    ELSE IF op.type = "student"
    THEN <<[collection |-> "students",
            doc |-> [id |-> <<Program, Regulation, op.inst_code, NatStr(op.roll)>>,
                     data |-> op.data]]>>
    ELSE <<>>

\* batch.set(doc_ref, data) of every operation of ops, then batch.commit()
RECURSIVE CommitSets(_, _)
CommitSets(docs, ops) ==
    IF ops = <<>> THEN docs
    ELSE LET d == DocOf(Head(ops))
             next == IF d = <<>> THEN docs
                     ELSE [docs EXCEPT ![d[1].collection] =
                              {x \in @ : x.id # d[1].doc.id} \cup {d[1].doc}]
         IN  CommitSets(next, Tail(ops))

\* the operations of ops, which holds the positions first..., left after those at
\* the positions of raised are taken out
Prepared(ops, first, raised) ==
    LET kept == {i \in 1..Len(ops) : (first + i - 1) \notin raised}
        RECURSIVE Pick(_)
        Pick(i) == IF i > Len(ops) THEN <<>>
                   ELSE (IF i \in kept THEN <<ops[i]>> ELSE <<>>) \o Pick(i + 1)
    IN  Pick(1)


\* ------------------------------------------------------------------ the state
VARIABLES
    \* parse_pdf_results: whether the file exists and can be read, its extracted
    \* text, the parser's locals, the phase of the two invocations and what each
    \* returned
    pdf_file, text, pst, pphase, ppos, result1, result2,
    \* transfer_pdf_to_supabase and batch_write_to_supabase
    ipc, parsed, batch_data, bi, successful_writes, attempts, success,
    \* the operation list of transfer_pdf_to_firestore
    firestore_batch,
    \* the Firestore documents, the operations whose preparation raised, the chunks
    \* and futures of parallel_batch_write and the futures whose result was added
    fs, skipped, chunks, wstate, collected,
    \* what the first transfer of the gradesheet left, once it is transferred again
    once,
    \* MultiSupabaseManager: projects, search_order, current_project; the
    \* project the transfer writes to; the tables of every project
    projects, search_order, current_project, target, db,
    \* the projects whose calls may raise while the request is served
    outage,
    \* what supabase_projects.json holds
    config_file,
    \* one /api/search-result request
    pc, roll_no, idx, projects_tried, lookups, sres, web_idx, web_log, web_result,
    gpa_records, cgpa_records, cgpa_idx, response

parseVars == <<pdf_file, text, pst, pphase, ppos, result1, result2>>
firestoreVars == <<fs, skipped, chunks, wstate, collected>>
ingestVars == <<ipc, parsed, batch_data, bi, successful_writes, attempts, success,
                firestore_batch, firestoreVars, once>>
cfgVars == <<projects, search_order, current_project, target, outage, config_file>>
searchVars == <<pc, roll_no, idx, projects_tried, lookups, sres, web_idx, web_log,
                web_result, gpa_records, cgpa_records, cgpa_idx, response>>
vars == <<parseVars, ingestVars, cfgVars, db, searchVars>>

\* a name-valued field holding Python's None
NoProject == "None"

\* ---------------------------------------------------------------- the resolver
\* client.table(t).select('*').eq('program_name', ...).eq('regulation_year', ...)
Select(store, table) ==
    {r \in db[store][table] : r.program_name = Program /\ r.regulation_year = Regulation}

StudentRows(store, roll) == {r \in Select(store, "students") : r.roll_number = roll}

InstituteRows(store, code) == {r \in Select(store, "institutes") : r.institute_code = code}

GpaRows(store, code, roll) ==
    {r \in Select(store, "gpa_records") : r.institute_code = code /\ r.roll_number = roll}

CgpaRows(store, code, roll) ==
    {r \in Select(store, "cgpa_records") : r.institute_code = code /\ r.roll_number = roll}

\* .order('semester'): the rows in ascending semester order
RECURSIVE OrderBySemester(_)
OrderBySemester(rows) ==
    IF rows = {} THEN <<>>
    ELSE LET first == CHOOSE r \in rows : \A o \in rows : r.semester <= o.semester
         IN  <<first>> \o OrderBySemester(rows \ {first})

\* what search_student_across_projects returns
SearchResult(student_data, institute_data, project_name, tried, source, gpas) ==
    [student_data |-> student_data, institute_data |-> institute_data,
     project_name |-> project_name, projects_tried |-> tried, source |-> source,
     gpa_records |-> gpas]

Lookup(store, table, outcome) == [store |-> store, table |-> table, outcome |-> outcome]

\* the handler's "except Exception" (multi_supabase_api_server.py 357-359)
SearchFailed == [status |-> 500, body |-> [error |-> "Search failed"]]

QueryRolls == {721942, 700014, 999999}

\* POST /api/search-result with all three fields present
SearchRequest ==
    /\ pc = "idle"
    /\ ipc \in {"off", "done"}
    /\ \E r \in QueryRolls : roll_no' = r
    /\ pc' = "stores"
    /\ idx' = 1
    /\ projects_tried' = <<>>
    /\ lookups' = <<>>
    /\ UNCHANGED <<sres, web_idx, web_log, web_result, gpa_records, cgpa_records,
                   cgpa_idx, response>>
    /\ UNCHANGED <<parseVars, ingestVars, cfgVars, db>>

\* the calls that may raise when project_name is asked: any of them while the
\* project is unreachable, none otherwise
Faults(project_name, calls) ==
    IF project_name \in outage THEN calls \cup {"none"} ELSE {"none"}

\* a loop that passes over a project
NextIndexSkip(i) == i + 2

\* a loop that asks the same project again
NextIndexStay(i) == i

\* the project the loop visits after the one at index i
NextIndex(i) == i + 1

\* one iteration of "for project_name in self.search_order"
\* (multi_supabase.py 247-286); fault names the call that raises
SearchProject ==
    /\ pc = "stores"
    /\ idx <= Len(search_order)
    /\ LET project_name == search_order[idx]
           tried == Append(projects_tried, project_name)
       IN  IF project_name \notin projects
           THEN /\ idx' = NextIndex(idx)
                /\ UNCHANGED <<pc, projects_tried, lookups, sres>>
           ELSE \E fault \in Faults(project_name, {"client", "students", "institutes"}) :
                \E student_data \in StudentRows(project_name, roll_no) \cup {None} :
                  /\ projects_tried' = tried
                  /\ CASE fault = "client" ->
                            /\ student_data = None
                            /\ lookups' = Append(lookups, Lookup(project_name, "client", "raised"))
                            /\ idx' = NextIndex(idx)
                            /\ UNCHANGED <<pc, sres>>
                       [] fault = "students" ->
                            /\ student_data = None
                            /\ lookups' = Append(lookups, Lookup(project_name, "students", "raised"))
                            /\ idx' = NextIndex(idx)
                            /\ UNCHANGED <<pc, sres>>
                       [] fault = "institutes" ->
                            /\ student_data # None
                            /\ lookups' = lookups \o
                                  << Lookup(project_name, "students", "found"),
                                     Lookup(project_name, "institutes", "raised") >>
                            /\ idx' = NextIndex(idx)
                            /\ UNCHANGED <<pc, sres>>
                       [] OTHER ->
                            IF StudentRows(project_name, roll_no) = {}
                            THEN /\ student_data = None
                                 /\ lookups' = Append(lookups, Lookup(project_name, "students", "empty"))
                                 /\ idx' = NextIndex(idx)
                                 /\ UNCHANGED <<pc, sres>>
                            ELSE /\ student_data # None
                                 /\ LET rows == InstituteRows(project_name, student_data.institute_code)
                                        institute_data == IF rows = {} THEN None
                                                          ELSE CHOOSE r \in rows : TRUE
                                    IN  /\ lookups' = lookups \o
                                              << Lookup(project_name, "students", "found"),
                                                 Lookup(project_name, "institutes",
                                                        IF rows = {} THEN "empty" ELSE "found") >>
                                        /\ sres' = SearchResult(student_data, institute_data,
                                                                project_name, tried, "supabase", <<>>)
                                 /\ pc' = "handler"
                                 /\ UNCHANGED idx
    /\ UNCHANGED <<roll_no, web_idx, web_log, web_result, gpa_records, cgpa_records,
                   cgpa_idx, response>>
    /\ UNCHANGED <<parseVars, ingestVars, cfgVars, db>>


\* ------------------------------------------------------------ the web fallback
\* dict.get(key, default)
Get(d, k, default) == IF k \in DOMAIN d THEN d[k] ELSE default

EmptyRecord == [k \in {} |-> 0]

\* f'web_api_{api_name}'
WebSourceOf(api_name) ==
    CASE api_name = "btebresulthub" -> "web_api_btebresulthub"
      [] api_name = "another_api" -> "web_api_another_api"
      [] OTHER -> "web_api_"

\* institute code '00000'
UnknownCode == "00000"

\* one element of gpa_records (web_api_fallback.py 122-140)
WebGpaRecord(result) ==
    LET gpa_value == Get(result, "result", <<>>)
        is_passed == Get(result, "passed", TRUE)
        gpa_float == IF gpa_value # <<>> /\ gpa_value # REF
                     THEN (IF FloatOk(gpa_value) THEN Float(gpa_value) ELSE None)
                     ELSE None
    IN  [semester |-> Get(result, "semester", MinSemester),
         gpa |-> gpa_float,
         is_reference |-> (~is_passed) \/ gpa_value = REF,
         ref_subjects |-> {}]

\* convert_web_api_response (web_api_fallback.py 96-152)
ConvertWebApiResponse(data, api_name, roll) ==
    LET inst == Get(data, "instituteData", EmptyRecord)
        result_data == Get(data, "resultData", <<>>)
    IN  [student_data |-> [roll_number |-> Get(data, "roll", roll),
                           program_name |-> Get(data, "exam", Program),
                           regulation_year |-> Get(data, "regulation", Regulation),
                           institute_code |-> Get(inst, "code", UnknownCode)],
         institute_data |-> [name |-> Get(inst, "name", "Unknown Institute"),
                             district |-> Get(inst, "district", "Unknown"),
                             code |-> Get(inst, "code", UnknownCode)],
         gpa_records |-> [i \in 1..Len(result_data) |-> WebGpaRecord(result_data[i])],
         source |-> WebSourceOf(api_name),
         raw_response |-> data]

\* the dict search_student_across_web_apis returns when no API has the student
\* (web_api_fallback.py 170-177)
WebMiss(roll, sorted_apis) ==
    [success |-> FALSE, error |-> "Student not found in any web API",
     roll |-> roll, regulation |-> Regulation, exam |-> Program,
     web_apis_tried |-> [i \in 1..Len(sorted_apis) |-> sorted_apis[i].name]]

\* bodies an API may answer with for a roll
SamplePayloads(roll) ==
    { [roll |-> roll, exam |-> Program, regulation |-> Regulation,
       instituteData |-> [code |-> "23106", name |-> "Dhaka Polytechnic Institute",
                          district |-> "Dhaka"],
       resultData |-> << [semester |-> 1, result |-> <<"3",".","1","0">>, passed |-> TRUE],
                         [semester |-> 2, result |-> REF, passed |-> FALSE] >>],
      [roll |-> roll,
       resultData |-> << [semester |-> 4, result |-> <<"3",".","7","6">>, passed |-> TRUE],
                         [semester |-> 3, result |-> <<"3",".","5","0">>, passed |-> FALSE] >>] }

\* what one call of search_student_in_web_api can meet (web_api_fallback.py 75-94)
WebOutcomes == {"ok", "not_found", "http_error", "timeout", "network_error", "bad_body"}

\* the loop exit of search_student_across_projects and one iteration of
\* "for api_config in sorted_apis" (multi_supabase.py 288-290,
\* web_api_fallback.py 159-167)
SearchWebApi ==
    /\ pc \in {"stores", "web"}
    /\ pc = "stores" => idx > Len(search_order)
    /\ web_idx <= Len(SortByPriority(WebApis))
    /\ LET api_config == SortByPriority(WebApis)[web_idx]
       IN  \E outcome \in WebOutcomes : \E data \in SamplePayloads(roll_no) :
             /\ web_log' = Append(web_log, [api |-> api_config.name, outcome |-> outcome])
             /\ IF outcome = "ok"
                THEN /\ web_result' = ConvertWebApiResponse(data, api_config.name, roll_no)
                     /\ pc' = "webdone"
                     /\ UNCHANGED web_idx
                ELSE /\ web_idx' = web_idx + 1
                     /\ pc' = "web"
                     /\ UNCHANGED web_result
    /\ UNCHANGED <<roll_no, idx, projects_tried, lookups, sres, gpa_records, cgpa_records,
                   cgpa_idx, response>>
    /\ UNCHANGED <<parseVars, ingestVars, cfgVars, db>>

\* search_student_across_web_apis falls out of its loop (web_api_fallback.py 169-177)
SearchWebApisExhausted ==
    /\ pc \in {"stores", "web"}
    /\ pc = "stores" => idx > Len(search_order)
    /\ web_idx > Len(SortByPriority(WebApis))
    /\ web_result' = WebMiss(roll_no, SortByPriority(WebApis))
    /\ pc' = "webdone"
    /\ UNCHANGED <<roll_no, idx, projects_tried, lookups, sres, web_idx, web_log, gpa_records,
                   cgpa_records, cgpa_idx, response>>
    /\ UNCHANGED <<parseVars, ingestVars, cfgVars, db>>

\* search_student_across_projects after the web search (multi_supabase.py 292-309);
\* web_api_result['source'] on a dict without that key raises KeyError, which the
\* handler's except turns into the 500 answer
ReturnWebResult ==
    /\ pc = "webdone"
    /\ IF Truthy(web_result)
       THEN IF HasKey(web_result, "source")
            THEN /\ sres' = SearchResult(web_result.student_data, web_result.institute_data,
                                         web_result.source,
                                         Append(projects_tried, WebApiSentinel), "web_api",
                                         Get(web_result, "gpa_records", <<>>))
                 /\ pc' = "handler"
                 /\ UNCHANGED response
            ELSE /\ response' = SearchFailed
                 /\ pc' = "done"
                 /\ UNCHANGED sres
       ELSE /\ sres' = SearchResult(None, None, NoProject,
                                    Append(projects_tried, WebApiSentinel), "none", <<>>)
            /\ pc' = "handler"
            /\ UNCHANGED response
    /\ UNCHANGED <<roll_no, idx, projects_tried, lookups, web_idx, web_log, web_result,
                   gpa_records, cgpa_records, cgpa_idx>>
    /\ UNCHANGED <<parseVars, ingestVars, cfgVars, db>>

\* ------------------------------------------------------------------ the handler
NotFound(tried) ==
    [status |-> 404,
     body |-> [error |-> "Student not found in any project or web API",
               projects_searched |-> tried]]

\* one element of resultData (multi_supabase_api_server.py 329-340)
SemesterResult(gpa_record) ==
    LET gpa == IF gpa_record.gpa # None THEN FloatStr(gpa_record.gpa) ELSE REF
    IN  [semester |-> NatStr(gpa_record.semester),
         passed |-> ~gpa_record.is_reference,
         gpa |-> gpa,
         result |-> [gpa |-> gpa, ref_subjects |-> OrEmpty(gpa_record.ref_subjects)]]

\* one element of cgpaData (multi_supabase_api_server.py 346-352)
CgpaResult(cgpa_record) ==
    [semester |-> IF HasKey(cgpa_record, "semester")
                  THEN NatStr(cgpa_record.semester) ELSE <<"F","i","n","a","l">>,
     cgpa |-> IF cgpa_record.cgpa # None THEN FloatStr(cgpa_record.cgpa) ELSE None]

\* response_data (multi_supabase_api_server.py 307-355)
ResponseData(res, roll, gpas, cgpas) ==
    [status |-> 200,
     body |-> [success |-> TRUE, roll |-> roll, regulation |-> Regulation, exam |-> Program,
               found_in_project |-> res.project_name,
               projects_searched |-> res.projects_tried,
               source |-> Get(res, "source", "supabase"),
               instituteData |->
                   [code |-> Get(res.student_data, "institute_code", UnknownCode),
                    name |-> IF res.institute_data # None
                             THEN res.institute_data.name ELSE "Unknown",
                    district |-> IF res.institute_data # None
                                 THEN res.institute_data.district ELSE "Unknown"],
               resultData |-> [i \in 1..Len(gpas) |-> SemesterResult(gpas[i])],
               cgpaData |-> [i \in 1..Len(cgpas) |-> CgpaResult(cgpas[i])]]]

\* a CGPA loop that begins at the project the student was found in
CgpaStartAtFound(order, found_project) ==
    CHOOSE i \in 1..Len(order) : order[i] = found_project

\* where "for project_name in supabase_manager.get_search_order()" begins
\* (multi_supabase_api_server.py 287): at the head of the search order,
\* whichever project the student was found in
CgpaStart(order, found_project) == 1

\* the handler from the manager's return to the gpa_records query
\* (multi_supabase_api_server.py 257-283); a raising query leaves through the
\* handler's except
HandleSearchResult ==
    /\ pc = "handler"
    /\ IF ~Truthy(sres.student_data)
       THEN /\ response' = NotFound(sres.projects_tried)
            /\ pc' = "done"
            /\ UNCHANGED <<gpa_records, cgpa_records, cgpa_idx>>
       ELSE IF Get(sres, "source", "supabase") = "web_api"
       THEN /\ gpa_records' = Get(sres, "gpa_records", <<>>)
            /\ cgpa_records' = <<>>
            /\ response' = ResponseData(sres, roll_no, gpa_records', cgpa_records')
            /\ pc' = "done"
            /\ UNCHANGED cgpa_idx
       ELSE \E fault \in Faults(sres.project_name, {"gpa_records"}) :
              IF fault = "gpa_records"
              THEN /\ response' = SearchFailed
                   /\ pc' = "done"
                   /\ UNCHANGED <<gpa_records, cgpa_records, cgpa_idx>>
              ELSE /\ gpa_records' = OrderBySemester(
                           GpaRows(sres.project_name, sres.student_data.institute_code, roll_no))
                   /\ cgpa_records' = <<>>
                   /\ cgpa_idx' = CgpaStart(search_order, sres.project_name)
                   /\ pc' = "cgpa"
                   /\ UNCHANGED response
    /\ lookups' = IF Truthy(sres.student_data) /\ Get(sres, "source", "supabase") # "web_api"
                  THEN Append(lookups, Lookup(sres.project_name, "gpa_records",
                                              IF pc' = "cgpa" THEN "done" ELSE "raised"))
                  ELSE lookups
    /\ UNCHANGED <<roll_no, idx, projects_tried, sres, web_idx, web_log, web_result>>
    /\ UNCHANGED <<parseVars, ingestVars, cfgVars, db>>

\* some order in which a query may return a set of rows
RECURSIVE SomeOrder(_)
SomeOrder(rows) ==
    IF rows = {} THEN <<>>
    ELSE LET first == CHOOSE r \in rows : TRUE
         IN  <<first>> \o SomeOrder(rows \ {first})

\* one iteration of the CGPA loop (multi_supabase_api_server.py 287-304)
SearchCgpa ==
    /\ pc = "cgpa"
    /\ cgpa_idx <= Len(search_order)
    /\ LET project_name == search_order[cgpa_idx]
           code == sres.student_data.institute_code
       IN  IF project_name \notin projects
           THEN /\ cgpa_idx' = cgpa_idx + 1
                /\ UNCHANGED <<pc, cgpa_records, lookups, response>>
           ELSE \E fault \in Faults(project_name, {"cgpa_records"}) :
                  IF fault = "cgpa_records"
                  THEN /\ lookups' = Append(lookups, Lookup(project_name, "cgpa_records", "raised"))
                       /\ cgpa_idx' = cgpa_idx + 1
                       /\ UNCHANGED <<pc, cgpa_records, response>>
                  ELSE IF CgpaRows(project_name, code, roll_no) # {}
                  THEN /\ cgpa_records' = SomeOrder(CgpaRows(project_name, code, roll_no))
                       /\ lookups' = Append(lookups, Lookup(project_name, "cgpa_records", "found"))
                       /\ response' = ResponseData(sres, roll_no, gpa_records, cgpa_records')
                       /\ pc' = "done"
                       /\ UNCHANGED cgpa_idx
                  ELSE /\ lookups' = Append(lookups, Lookup(project_name, "cgpa_records", "empty"))
                       /\ cgpa_idx' = cgpa_idx + 1
                       /\ UNCHANGED <<pc, cgpa_records, response>>
    /\ UNCHANGED <<roll_no, idx, projects_tried, sres, web_idx, web_log, web_result, gpa_records>>
    /\ UNCHANGED <<parseVars, ingestVars, cfgVars, db>>

\* the CGPA loop ends without a hit; the response is built and returned
\* (multi_supabase_api_server.py 306-355)
RespondWithoutCgpa ==
    /\ pc = "cgpa"
    /\ cgpa_idx > Len(search_order)
    /\ response' = ResponseData(sres, roll_no, gpa_records, cgpa_records)
    /\ pc' = "done"
    /\ UNCHANGED <<roll_no, idx, projects_tried, lookups, sres, web_idx, web_log, web_result,
                   gpa_records, cgpa_records, cgpa_idx>>
    /\ UNCHANGED <<parseVars, ingestVars, cfgVars, db>>

\* -------------------------------------------------------- gradesheet lines
\* 23106 - Dhaka Polytechnic Institute, Dhaka
HeaderDhaka ==
    <<TInst("23106", "Dhaka Polytechnic Institute", "Dhaka")>>
\* 11044 - Himaloy Polytechnic Institute of Technology, Panchagar
HeaderHimaloy ==
    <<TInst("11044", "Himaloy Polytechnic Institute of Technology", "Panchagar")>>
\* 700014 (gpa4: 3.76, gpa3: 3.54, gpa2:
LineWrapOpen ==
    <<TRoll(700014), TLp, TLbl(4), TVal(<<"3", ".", "7", "6">>), TComma, TLbl(3),
      TVal(<<"3", ".", "5", "4">>), TComma, TLbl(2)>>
\* 3.34, gpa1:
LineWrapMid ==
    <<TVal(<<"3", ".", "3", "4">>), TComma, TLbl(1)>>
\* 3.10)
LineWrapClose ==
    <<TVal(<<"3", ".", "1", "0">>), TRp>>
\* 721942 (gpa4: 3.76, gpa1: ref)
LineTarget ==
    <<TRoll(721942), TLp, TLbl(4), TVal(<<"3", ".", "7", "6">>), TComma, TLbl(1),
      TVal(<<"r", "e", "f">>), TRp>>
\* 721941 (gpa5: 3.00, gpa4: 2.00)721942 (gpa4: 3.76)
LineNeighbours ==
    <<TRoll(721941), TLp, TLbl(5), TVal(<<"3", ".", "0", "0">>), TComma, TLbl(4),
      TVal(<<"2", ".", "0", "0">>), TRp, TRollGlued(721942), TLp, TLbl(4),
      TVal(<<"3", ".", "7", "6">>), TRp>>
\* 700014 { gpa1: ref, ref_sub:
LineRefOpen ==
    <<TRoll(700014), TLp, TLbl(1), TVal(<<"r", "e", "f">>), TComma, TRefSub>>
\* 28542(T) } 700015 (gpa1: 3.00)
LineRefClose ==
    <<TSubj(<<"2", "8", "5", "4", "2">>), TRb, TRoll(700015), TLp, TLbl(1),
      TVal(<<"3", ".", "0", "0">>), TRp>>
\* 700015 (gpa2: 4.50, gpa1: 3.7.6)
LineOutOfRange ==
    <<TRoll(700015), TLp, TLbl(2), TVal(<<"4", ".", "5", "0">>), TComma, TLbl(1),
      TVal(<<"3", ".", "7", ".", "6">>), TRp>>
\* 700014 { gpa2: 3.10, gpa1: ref, ref_sub: 28542(T) }
LineRefWhole ==
    <<TRoll(700014), TLp, TLbl(2), TVal(<<"3", ".", "1", "0">>), TComma, TLbl(1),
      TVal(<<"r", "e", "f">>), TComma, TRefSub, TSubj(<<"2", "8", "5", "4", "2">>), TRb>>
\* gpa1: 3.36)700022 (gpa2: 2.50)
LineGluedStart ==
    <<TLbl(1), TVal(<<"3", ".", "3", "6">>), TRp, TRollGlued(700022), TLp, TLbl(2),
      TVal(<<"2", ".", "5", "0">>), TRp>>
\* 3.60, ref_sub: 28542(T) }
LineValueRefSub ==
    <<TVal(<<"3", ".", "6", "0">>), TComma, TRefSub, TSubj(<<"2", "8", "5", "4", "2">>), TRb>>
\* 700016 (gpa1:
LineBareOpen ==
    <<TRoll(700016), TLp, TLbl(1)>>
\* 700017 (gpa9: 3.90, gpa0: 3.00, gpa2: 3.20)
LineBadLabel ==
    <<TRoll(700017), TLp, TLbl(9), TVal(<<"3", ".", "9", "0">>), TComma, TLbl(0),
      TVal(<<"3", ".", "0", "0">>), TComma, TLbl(2), TVal(<<"3", ".", "2", "0">>), TRp>>

Lines ==
    {HeaderDhaka, HeaderHimaloy, LineWrapOpen, LineWrapMid, LineWrapClose, LineTarget,
     LineNeighbours, LineRefOpen, LineRefClose, LineOutOfRange, LineRefWhole,
     LineGluedStart, LineValueRefSub, LineBareOpen, LineBadLabel}

\* the lines of the gradesheets that are transferred
IngestLines ==
    {LineTarget, LineNeighbours, LineRefOpen, LineRefClose, LineOutOfRange, LineRefWhole}

\* texts of at most n lines over a vocabulary
RECURSIVE Texts(_, _)
Texts(vocabulary, n) ==
    IF n = 0 THEN {<<>>}
    ELSE LET shorter == Texts(vocabulary, n - 1)
         IN  shorter \cup {Append(t, l) : t \in {x \in shorter : Len(x) = n - 1}, l \in vocabulary}

MaxLines == 3
MaxIngestLines == 2

\* the texts parsed: up to MaxLines lines, alone or under a first header
ParseDocs ==
    Texts(Lines, MaxLines) \cup {<<HeaderDhaka>> \o t : t \in Texts(Lines, MaxLines)}

\* the gradesheets transferred: a header and up to MaxIngestLines lines, and the
\* texts of at most one line without any header
IngestDocs ==
    {<<HeaderDhaka>> \o t : t \in Texts(IngestLines, MaxIngestLines)}
       \cup {t \in Texts(IngestLines, MaxIngestLines) : Len(t) <= 1}

\* ------------------------------------------------------- parse_pdf_results
\* locals that keep what the last invocation left
FreshLocalsStale(previous) == previous

\* institutes = {} and current_inst = None at the top of every invocation
\* (nn.py 303-304); "previous" is what the last invocation left in its locals
FreshLocals(previous) == ParseStart

\* the entry of parse_pdf_results: the file test and the reading of the pages return
\* {} at once (nn.py 280-301), else the locals are set up (nn.py 303-315)
ParseBegin ==
    /\ pphase \in {"first", "second"}
    /\ ppos = 0
    /\ IF pdf_file = Readable
       THEN /\ pst' = FreshLocals(pst)
            /\ ppos' = 1
            /\ UNCHANGED <<pphase, result1, result2>>
       ELSE /\ IF pphase = "first"
               THEN /\ result1' = EmptyDict
                    /\ pphase' = "second"
                    /\ UNCHANGED result2
               ELSE /\ result2' = EmptyDict
                    /\ pphase' = "finished"
                    /\ UNCHANGED result1
            /\ UNCHANGED <<pst, ppos>>
    /\ UNCHANGED <<pdf_file, text>>
    /\ UNCHANGED <<ingestVars, cfgVars, db, searchVars>>

\* one iteration of "for line_num, line in enumerate(lines, 1)" (nn.py 327-539)
ParseLine ==
    /\ pphase \in {"first", "second"}
    /\ ppos \in 1..Len(text)
    /\ pst' = ProcessLine(pst, text[ppos])
    /\ ppos' = ppos + 1
    /\ UNCHANGED <<pdf_file, text, pphase, result1, result2>>
    /\ UNCHANGED <<ingestVars, cfgVars, db, searchVars>>

\* the clean-up and the return (nn.py 541-572)
ParseEnd ==
    /\ pphase \in {"first", "second"}
    /\ ppos = Len(text) + 1
    /\ IF pphase = "first"
       THEN /\ result1' = CleanUp(pst.institutes)
            /\ pphase' = "second"
            /\ UNCHANGED result2
       ELSE /\ result2' = CleanUp(pst.institutes)
            /\ pphase' = "finished"
            /\ UNCHANGED result1
    /\ ppos' = 0
    /\ UNCHANGED <<pdf_file, text, pst>>
    /\ UNCHANGED <<ingestVars, cfgVars, db, searchVars>>

\* ------------------------------------------------ transfer_pdf_to_supabase
BatchSize == 5

Min(a, b) == IF a < b THEN a ELSE b

\* batch_data[i:i + batch_size]
CurrentBatch(data, i) == SubSeq(data, i + 1, Min(i + BatchSize, Len(data)))

\* the upserts a batch executes: the tables for which it holds rows
TablesWritten(batch) ==
    {t \in 1..Len(TableNames) : RowsFor(batch, TableNames[t]) # <<>>}

NoFailure == Len(TableNames) + 1

\* the commits that may fail during one transfer
MaxFailures == 1

\* a loop that gives up at the first batch whose commit failed
NextBatchStop(i, size, committed, total) == IF committed THEN i + size ELSE total

\* the next i of "for i in range(0, total_operations, batch_size)": the except
\* branch ends with "continue" (bteb_transfer.py 232-237, nn.py 175-179)
NextBatch(i, size, committed, total) == i + size

\* the tool that runs: either one the first time, the same one the second time
RunsTool(tool) == IF once = None THEN TRUE ELSE once.tool = tool

Failures(log) == Len(SelectSeq(log, LAMBDA a : ~a.committed))

\* batch_data of transfer_pdf_to_firestore (nn.py 598-663)
RECURSIVE FirestoreStudentOps(_, _, _)
FirestoreStudentOps(inst_code, students, rolls) ==
    IF rolls = <<>> THEN <<>>
    ELSE <<[type |-> "student", inst_code |-> inst_code, roll |-> Head(rolls),
            data |-> [institute_code |-> inst_code, roll_number |-> Head(rolls),
                      gpa_data |-> FirestoreGpaData(DictGet(students, Head(rolls)))]]>>
         \o FirestoreStudentOps(inst_code, students, Tail(rolls))

RECURSIVE FirestoreBatchData(_, _)
FirestoreBatchData(institutes, codes) ==
    IF codes = <<>> THEN <<>>
    ELSE LET inst_data == DictGet(institutes, Head(codes))
         IN  <<[type |-> "institute", inst_code |-> Head(codes),
                data |-> [institute_code |-> Head(codes), name |-> inst_data.name,
                          district |-> inst_data.district]]>>
             \o FirestoreStudentOps(Head(codes), inst_data.students, inst_data.students.keys)
             \o FirestoreBatchData(institutes, Tail(codes))

\* transfer_pdf_to_firestore up to the call of the batch write (nn.py 578-667)
TransferToFirestore ==
    /\ ipc = "start"
    /\ RunsTool("firestore")
    /\ target = NoProject
    /\ parsed' = ParsePdfResults(pdf_file, text)
    /\ firestore_batch' = IF NoInstitutes(parsed') THEN <<>>
                          ELSE FirestoreBatchData(parsed', parsed'.keys)
    /\ ipc' = IF NoInstitutes(parsed') THEN "done" ELSE "prepared"
    /\ UNCHANGED <<batch_data, bi, successful_writes, attempts, success, firestoreVars,
                   once>>
    /\ UNCHANGED <<parseVars, cfgVars, db, searchVars>>

\* the entry of transfer_pdf_to_supabase up to the call of the batch write
\* (bteb_transfer.py 559-671, 174-184)
TransferStart ==
    /\ ipc = "start"
    /\ RunsTool("supabase")
    /\ IF target = NoProject
       THEN /\ success' = FALSE
            /\ ipc' = "done"
            /\ UNCHANGED <<parsed, batch_data>>
       ELSE /\ parsed' = ParsePdfResults(pdf_file, text)
            /\ IF NoInstitutes(parsed')
               THEN /\ success' = FALSE
                    /\ ipc' = "done"
                    /\ UNCHANGED batch_data
               ELSE /\ batch_data' = BatchData(parsed')
                    /\ ipc' = "writing"
                    /\ UNCHANGED success
    /\ bi' = 0
    /\ successful_writes' = 0
    /\ attempts' = <<>>
    /\ UNCHANGED <<firestore_batch, firestoreVars, once>>
    /\ UNCHANGED <<parseVars, cfgVars, db, searchVars>>

\* one iteration of "for i in range(0, total_operations, batch_size)"
\* (bteb_transfer.py 187-237); fail_at is the table whose upsert raises
WriteBatch ==
    /\ ipc = "writing"
    /\ bi < Len(batch_data)
    /\ LET current_batch == CurrentBatch(batch_data, bi)
       IN  \E fail_at \in (IF Failures(attempts) < MaxFailures
                             THEN TablesWritten(current_batch) ELSE {}) \cup {NoFailure} :
             /\ db' = [db EXCEPT ![target] = WriteTables(@, current_batch, 1, fail_at)]
             /\ successful_writes' = IF fail_at = NoFailure
                                     THEN successful_writes + Len(current_batch)
                                     ELSE successful_writes
             /\ attempts' = Append(attempts, [batch |-> bi, committed |-> fail_at = NoFailure])
             /\ bi' = NextBatch(bi, BatchSize, fail_at = NoFailure, Len(batch_data))
    /\ UNCHANGED <<ipc, parsed, batch_data, success, firestore_batch, firestoreVars, once>>
    /\ UNCHANGED <<parseVars, cfgVars, searchVars>>

\* the return of the batch write and of the transfer (bteb_transfer.py 239-683)
TransferEnd ==
    /\ ipc = "writing"
    /\ bi >= Len(batch_data)
    /\ success' = (successful_writes = Len(batch_data))
    /\ ipc' = "done"
    /\ UNCHANGED <<parsed, batch_data, bi, successful_writes, attempts, firestore_batch,
                   firestoreVars, once>>
    /\ UNCHANGED <<parseVars, cfgVars, db, searchVars>>

\* ------------------------------------------------ batch_write_to_firestore
\* batch_size of batch_write_to_firestore, batch_size and max_workers of
\* parallel_batch_write, and the length above which the transfer writes in parallel
FirestoreBatchSize == 1
ChunkSize == 1
MaxWorkers == 2
ParallelThreshold == 2

\* the operations whose preparation may raise during one transfer
MaxSkips == 1

\* the sets of positions first..last whose preparation raises
Raises(first, last) ==
    {r \in SUBSET (first..last) : Cardinality(skipped \cup r) <= MaxSkips}

\* the call of batch_write_to_firestore for a short operation list (nn.py 673-679,
\* 130-140)
FirestoreWriteStart ==
    /\ ipc = "prepared"
    /\ Len(firestore_batch) <= ParallelThreshold
    /\ ipc' = "fswriting"
    /\ bi' = 0
    /\ successful_writes' = 0
    /\ attempts' = <<>>
    /\ skipped' = {}
    /\ UNCHANGED <<parsed, batch_data, success, firestore_batch, fs, chunks, wstate,
                   collected, once>>
    /\ UNCHANGED <<parseVars, cfgVars, db, searchVars>>

\* one iteration of "for i in range(0, total_operations, batch_size)" (nn.py
\* 143-179): an operation whose preparation raises is left out of the batch, the
\* commit sets every prepared document or raises and sets none
FirestoreWriteBatch ==
    /\ ipc = "fswriting"
    /\ bi < Len(firestore_batch)
    /\ LET current_batch == SubSeq(firestore_batch, bi + 1,
                                   Min(bi + FirestoreBatchSize, Len(firestore_batch)))
       IN  \E raised \in Raises(bi + 1, bi + Len(current_batch)) :
           \E committed \in (IF Failures(attempts) < MaxFailures THEN {FALSE} ELSE {})
                               \cup {TRUE} :
             /\ fs' = IF committed
                      THEN CommitSets(fs, Prepared(current_batch, bi + 1, raised))
                      ELSE fs
             /\ successful_writes' = IF committed
                                     THEN successful_writes + Len(current_batch)
                                     ELSE successful_writes
             /\ skipped' = skipped \cup raised
             /\ attempts' = Append(attempts, [batch |-> bi, committed |-> committed])
             /\ bi' = NextBatch(bi, FirestoreBatchSize, committed, Len(firestore_batch))
    /\ UNCHANGED <<ipc, parsed, batch_data, success, firestore_batch, chunks, wstate,
                   collected, once>>
    /\ UNCHANGED <<parseVars, cfgVars, db, searchVars>>

\* the return of batch_write_to_firestore and of the transfer (nn.py 181-191, 681-687)
FirestoreWriteEnd ==
    /\ ipc = "fswriting"
    /\ bi >= Len(firestore_batch)
    /\ success' = (successful_writes = Len(firestore_batch))
    /\ ipc' = "done"
    /\ UNCHANGED <<parsed, batch_data, bi, successful_writes, attempts, firestore_batch,
                   firestoreVars, once>>
    /\ UNCHANGED <<parseVars, cfgVars, db, searchVars>>

\* ---------------------------------------------------- parallel_batch_write
\* chunks that share the operation at their border
ChunksOverlapping(data, size) ==
    [c \in 1..((Len(data) + size - 1) \div size) |->
        SubSeq(data, (c - 1) * size + 1, Min(c * size + 1, Len(data)))]

\* [batch_data[i:i + batch_size] for i in range(0, total_operations, batch_size)]
Chunks(data, size) ==
    [c \in 1..((Len(data) + size - 1) \div size) |->
        SubSeq(data, (c - 1) * size + 1, Min(c * size, Len(data)))]

\* the futures whose process_batch is running, and those that are done
Running == {c \in DOMAIN wstate : wstate[c] = "running"}
Finished == {c \in DOMAIN wstate : wstate[c] \in {"committed", "failed", "raised"}}

\* the call of parallel_batch_write for a long operation list: the chunks are cut
\* and every one is submitted to the pool (nn.py 673-676, 194-206, 241-246)
ParallelStart ==
    /\ ipc = "prepared"
    /\ Len(firestore_batch) > ParallelThreshold
    /\ ipc' = "parallel"
    /\ chunks' = Chunks(firestore_batch, ChunkSize)
    /\ wstate' = [c \in DOMAIN chunks' |-> "queued"]
    /\ collected' = {}
    /\ successful_writes' = 0
    /\ skipped' = {}
    /\ attempts' = <<>>
    /\ UNCHANGED <<parsed, batch_data, bi, success, firestore_batch, fs, once>>
    /\ UNCHANGED <<parseVars, cfgVars, db, searchVars>>

\* a free thread of the pool takes the chunk submitted first among those waiting
WorkerStart ==
    /\ ipc = "parallel"
    /\ Cardinality(Running) < MaxWorkers
    /\ \E c \in DOMAIN wstate :
         /\ wstate[c] = "queued"
         /\ \A d \in 1..(c - 1) : wstate[d] # "queued"
         /\ wstate' = [wstate EXCEPT ![c] = "running"]
    /\ UNCHANGED <<ipc, parsed, batch_data, bi, successful_writes, attempts, success,
                   firestore_batch, fs, skipped, chunks, collected, once>>
    /\ UNCHANGED <<parseVars, cfgVars, db, searchVars>>

\* process_batch of one chunk (nn.py 208-239): the client cannot be made and the
\* call raises, or the prepared documents are committed, or the commit raises
WorkerFinish ==
    /\ ipc = "parallel"
    /\ \E c \in Running :
         LET first == (c - 1) * ChunkSize + 1
             failures == Cardinality({d \in DOMAIN wstate : wstate[d] \in {"failed", "raised"}})
         IN  \E raised \in Raises(first, first + Len(chunks[c]) - 1) :
             \E outcome \in (IF failures < MaxFailures THEN {"failed", "raised"} ELSE {})
                               \cup {"committed"} :
               /\ wstate' = [wstate EXCEPT ![c] = outcome]
               /\ fs' = IF outcome = "committed"
                        THEN CommitSets(fs, Prepared(chunks[c], first, raised))
                        ELSE fs
               /\ skipped' = IF outcome = "raised" THEN skipped ELSE skipped \cup raised
    /\ UNCHANGED <<ipc, parsed, batch_data, bi, successful_writes, attempts, success,
                   firestore_batch, chunks, collected, once>>
    /\ UNCHANGED <<parseVars, cfgVars, db, searchVars>>

\* one iteration of "for future in as_completed(future_to_chunk)" (nn.py 248-256):
\* the result of a finished future is added; a future that raised adds nothing
Collect ==
    /\ ipc = "parallel"
    /\ \E c \in Finished \ collected :
         /\ collected' = collected \cup {c}
         /\ successful_writes' = IF wstate[c] = "committed"
                                 THEN successful_writes + Len(chunks[c])
                                 ELSE successful_writes
    /\ UNCHANGED <<ipc, parsed, batch_data, bi, attempts, success, firestore_batch, fs,
                   skipped, chunks, wstate, once>>
    /\ UNCHANGED <<parseVars, cfgVars, db, searchVars>>

\* as_completed has yielded every future and the pool is shut down: the return of
\* parallel_batch_write and of the transfer (nn.py 258-267, 681-687)
ParallelEnd ==
    /\ ipc = "parallel"
    /\ collected = DOMAIN wstate
    /\ success' = (successful_writes = Len(firestore_batch))
    /\ ipc' = "done"
    /\ UNCHANGED <<parsed, batch_data, bi, successful_writes, attempts, firestore_batch,
                   firestoreVars, once>>
    /\ UNCHANGED <<parseVars, cfgVars, db, searchVars>>

\* the same tool is run again on the gradesheet after a transfer in which no
\* preparation and no commit raised
TransferAgain ==
    /\ ipc = "done"
    /\ once = None
    /\ success
    /\ skipped = {}
    /\ once' = [tool |-> IF batch_data # <<>> THEN "supabase" ELSE "firestore",
                tables |-> IF target = NoProject THEN EmptyDB ELSE db[target],
                docs |-> fs]
    /\ ipc' = "start"
    /\ success' = FALSE
    /\ UNCHANGED <<parsed, batch_data, bi, successful_writes, attempts, firestore_batch,
                   firestoreVars>>
    /\ UNCHANGED <<parseVars, cfgVars, db, searchVars>>

\* ------------------------------------------------------ MultiSupabaseManager
KnownNames == Range(ProjectNames)

\* the names the manager is asked to add or remove: the first two projects of the
\* configured order
AdminNames == {ConfiguredOrder[1], ConfiguredOrder[2]}

\* add_project (multi_supabase.py 183-186)
AddProject ==
    /\ pc = "idle"
    /\ \E name \in AdminNames : projects' = projects \cup {name}
    /\ UNCHANGED <<search_order, current_project, target, outage, config_file>>
    /\ UNCHANGED <<parseVars, ingestVars, db, searchVars>>

\* a removal that leaves the current project as it is
CurrentAfterRemoveKept(current, name) == current

\* "if self.current_project == name: self.current_project = None"
\* (multi_supabase.py 192-193)
CurrentAfterRemove(current, name) == IF current = name THEN NoProject ELSE current

\* remove_project(name) (multi_supabase.py 188-194)
RemoveProjectNamed(name) ==
    IF name \in projects
    THEN /\ projects' = projects \ {name}
         /\ current_project' = CurrentAfterRemove(current_project, name)
    ELSE UNCHANGED <<projects, current_project>>

\* remove_project (multi_supabase.py 188-194)
RemoveProject ==
    /\ pc = "idle"
    /\ \E name \in AdminNames : RemoveProjectNamed(name)
    /\ UNCHANGED <<search_order, target, outage, config_file>>
    /\ UNCHANGED <<parseVars, ingestVars, db, searchVars>>

\* the config_data of save_config (multi_supabase.py 313-318)
ConfigData(current, order, names) ==
    [current_project |-> current, search_order |-> order, projects |-> names]

\* list(self.projects.keys()) of a manager loaded from the file
ProjectKeys(names) == SelectSeq(ProjectNames, LAMBDA name : name \in names)

\* save_config (multi_supabase.py 311-329)
SaveConfig ==
    /\ pc = "idle"
    /\ config_file' = ConfigData(current_project, search_order, projects)
    /\ UNCHANGED <<projects, search_order, current_project, target, outage>>
    /\ UNCHANGED <<parseVars, ingestVars, db, searchVars>>

\* the project a setup run adds to the existing configuration
NewNames == {ProjectNames[NumStores + 1]}

\* add_single_project (setup_supabase_projects.py 126-161): add_project, then
\* save_config
AddSingleProject ==
    /\ pc = "idle"
    /\ \E name \in NewNames :
         /\ projects' = projects \cup {name}
         /\ config_file' = ConfigData(current_project, search_order, projects')
    /\ UNCHANGED <<search_order, current_project, target, outage>>
    /\ UNCHANGED <<parseVars, ingestVars, db, searchVars>>

\* MultiSupabaseManager() in a new process: __init__ and load_config
\* (multi_supabase.py 97-140) with no SUPABASE_URL in the environment
LoadConfig ==
    /\ pc = "idle"
    /\ projects' = config_file.projects
    /\ search_order' = IF config_file.search_order = <<>>
                       THEN ProjectKeys(config_file.projects)
                       ELSE config_file.search_order
    /\ current_project' = config_file.current_project
    /\ UNCHANGED <<target, outage, config_file>>
    /\ UNCHANGED <<parseVars, ingestVars, db, searchVars>>

\* set_current_project(name) (multi_supabase.py 196-202)
SetCurrentProjectTo(name) ==
    current_project' = IF name \in projects THEN name ELSE current_project

\* set_current_project (multi_supabase.py 196-202)
SetCurrentProject ==
    /\ pc = "idle"
    /\ \E name \in AdminNames : SetCurrentProjectTo(name)
    /\ UNCHANGED <<projects, search_order, target, outage, config_file>>
    /\ UNCHANGED <<parseVars, ingestVars, db, searchVars>>

\* ------------------------------------------------------------- specifications
\* a gradesheet stored earlier: institute 23106 with students 721942 and 700014
StoredSheet == <<HeaderDhaka, LineTarget, LineRefWhole>>

\* the same student listed under a second institute
SecondSheet == <<HeaderDhaka, LineTarget, HeaderHimaloy, LineTarget>>

Stored(sheet) == WriteTables(EmptyDB, BatchData(ParseText(sheet)), 1, NoFailure)

CgpaRow(code, roll, cgpa) ==
    [program_name |-> Program, regulation_year |-> Regulation, institute_code |-> code,
     roll_number |-> roll, cgpa |-> Float(cgpa)]

\* what a project holds when it holds the sample students
StoreTables(name) ==
    IF name = ProjectNames[1] THEN Stored(StoredSheet)
    ELSE IF name = ProjectNames[2]
    THEN [Stored(StoredSheet) EXCEPT
             !["cgpa_records"] = {CgpaRow("23106", 721942, <<"3",".","5","0">>)}]
    ELSE [Stored(SecondSheet) EXCEPT
             !["cgpa_records"] = {CgpaRow("23106", 721942, <<"3",".","4","0">>)}]

\* a project that holds a CGPA record of student 721942 and no student row
CgpaOnly ==
    [EmptyDB EXCEPT !["cgpa_records"] = {CgpaRow("23106", 721942, <<"3",".","2","0">>)}]

MaxOutage == 1

\* the sets of projects that may be unreachable during a request; a call to an
\* unreachable project may still succeed, so the smaller sets add no behaviour
Outages == {o \in SUBSET StoreSet : Cardinality(o) = MaxOutage}

ParserIdle ==
    /\ pdf_file = Readable
    /\ pst = ParseStart
    /\ pphase = "finished"
    /\ ppos = 0
    /\ result1 = EmptyDict
    /\ result2 = EmptyDict

IngestIdle(state) ==
    /\ ipc = state
    /\ parsed = EmptyDict
    /\ batch_data = <<>>
    /\ bi = 0
    /\ successful_writes = 0
    /\ attempts = <<>>
    /\ success = FALSE
    /\ firestore_batch = <<>>
    /\ fs = EmptyFs
    /\ skipped = {}
    /\ chunks = <<>>
    /\ wstate = <<>>
    /\ collected = {}
    /\ once = None

\* MultiSupabaseManager after load_config with every project configured
ManagerLoaded ==
    /\ projects = StoreSet
    /\ search_order = ConfiguredOrder
    /\ current_project = ConfiguredOrder[1]
    /\ config_file = ConfigData(ConfiguredOrder[1], ConfiguredOrder, StoreSet)

NoRequest ==
    /\ pc = "idle"
    /\ roll_no = 0
    /\ idx = 1
    /\ projects_tried = <<>>
    /\ lookups = <<>>
    /\ sres = None
    /\ web_idx = 1
    /\ web_log = <<>>
    /\ web_result = None
    /\ gpa_records = <<>>
    /\ cgpa_records = <<>>
    /\ cgpa_idx = 1
    /\ response = None

InitSearch ==
    /\ text = <<>>
    /\ ParserIdle
    /\ IngestIdle("off")
    /\ ManagerLoaded
    /\ target = ConfiguredOrder[1]
    /\ outage \in Outages
    /\ \E holders \in SUBSET StoreSet : \E others \in {EmptyDB, CgpaOnly} :
         db = [name \in KnownNames |->
                  IF name \in holders THEN StoreTables(name)
                  ELSE IF name = ProjectNames[1] THEN others ELSE EmptyDB]
    /\ NoRequest

NextSearch ==
    \/ AddProject
    \/ RemoveProject
    \/ SearchRequest
    \/ SearchProject
    \/ SearchWebApi
    \/ SearchWebApisExhausted
    \/ ReturnWebResult
    \/ HandleSearchResult
    \/ SearchCgpa
    \/ RespondWithoutCgpa

SpecSearch == InitSearch /\ [][NextSearch]_vars

\* the manager administered before a request is served: the file either names the
\* search order or leaves it empty, every project holds the gradesheet or none does
InitManager ==
    /\ text = <<>>
    /\ ParserIdle
    /\ IngestIdle("off")
    /\ projects = StoreSet
    /\ search_order = ConfiguredOrder
    /\ current_project \in {ConfiguredOrder[1], NoProject}
    /\ \E order \in {ConfiguredOrder, <<>>} :
         config_file = ConfigData(current_project, order, StoreSet)
    /\ target = ConfiguredOrder[1]
    /\ outage = {}
    /\ \E holders \in {{}, {ConfiguredOrder[1]}, {ProjectNames[NumStores + 1]}} :
         db = [name \in KnownNames |->
                  IF name \in holders THEN StoreTables(name) ELSE EmptyDB]
    /\ NoRequest

NextManager ==
    \/ AddProject
    \/ RemoveProject
    \/ SetCurrentProject
    \/ SaveConfig
    \/ AddSingleProject
    \/ LoadConfig
    \/ SearchRequest
    \/ SearchProject
    \/ SearchWebApi
    \/ SearchWebApisExhausted
    \/ ReturnWebResult
    \/ HandleSearchResult
    \/ SearchCgpa
    \/ RespondWithoutCgpa

SpecManager == InitManager /\ [][NextManager]_vars

InitParse ==
    /\ \/ pdf_file = Readable /\ text \in ParseDocs
       \/ pdf_file \in {Missing, Unreadable} /\ text = <<>>
    /\ pst = ParseStart
    /\ pphase = "first"
    /\ ppos = 0
    /\ result1 = EmptyDict
    /\ result2 = EmptyDict
    /\ IngestIdle("off")
    /\ ManagerLoaded
    /\ target = ConfiguredOrder[1]
    /\ outage = {}
    /\ db = [name \in KnownNames |-> EmptyDB]
    /\ NoRequest

NextParse ==
    \/ ParseBegin
    \/ ParseLine
    \/ ParseEnd

SpecParse == InitParse /\ [][NextParse]_vars

\* a transfer of one gradesheet into one project; no client when the
\* environment names no project
InitTransfer ==
    /\ \/ pdf_file = Readable /\ text \in IngestDocs
       \/ pdf_file \in {Missing, Unreadable} /\ text = <<>>
    /\ pst = ParseStart
    /\ pphase = "finished"
    /\ ppos = 0
    /\ result1 = EmptyDict
    /\ result2 = EmptyDict
    /\ IngestIdle("start")
    /\ ManagerLoaded
    /\ target \in StoreSet \cup {NoProject}
    /\ outage = {}
    /\ db = [name \in KnownNames |-> EmptyDB]
    /\ NoRequest

NextTransfer ==
    \/ TransferStart
    \/ WriteBatch
    \/ TransferEnd
    \/ TransferToFirestore
    \/ FirestoreWriteStart
    \/ FirestoreWriteBatch
    \/ FirestoreWriteEnd
    \/ ParallelStart
    \/ WorkerStart
    \/ WorkerFinish
    \/ Collect
    \/ ParallelEnd
    \/ TransferAgain

SpecTransfer == InitTransfer /\ [][NextTransfer]_vars

NextRoundTrip ==
    \/ TransferStart
    \/ WriteBatch
    \/ TransferEnd
    \/ TransferToFirestore
    \/ SearchRequest
    \/ SearchProject
    \/ SearchWebApi
    \/ SearchWebApisExhausted
    \/ ReturnWebResult
    \/ HandleSearchResult
    \/ SearchCgpa
    \/ RespondWithoutCgpa

SpecRoundTrip == InitTransfer /\ [][NextRoundTrip]_vars

\* ---------------------------------------------------------------- properties
\* the position of a project in the search order
Pos(name) == CHOOSE i \in 1..Len(search_order) : search_order[i] = name

\* the projects of the search order that are registered, in search order
ConfiguredStores == SelectSeq(search_order, LAMBDA name : name \in projects)

\* the registered projects of the search order up to position p
StoresUpTo(p) == SelectSeq(SubSeq(search_order, 1, p), LAMBDA name : name \in projects)

\* the registered projects of the search order that hold the queried roll
Holders == {name \in Range(ConfiguredStores) : StudentRows(name, roll_no) # {}}

StudentLookups == SelectSeq(lookups, LAMBDA l : l.table = "students")

\* a call made to the project while looking for the student raised
Raised(name) ==
    \E i \in 1..Len(lookups) :
        /\ lookups[i].store = name
        /\ lookups[i].table \in {"client", "students", "institutes"}
        /\ lookups[i].outcome = "raised"

AllWebApisFailed ==
    /\ Len(web_log) = Len(WebApis)
    /\ \A i \in 1..Len(web_log) : web_log[i].outcome # "ok"

\* C1: exhaustive miss. When the roll is in no configured store and every web API
\* answered not-found or failed, the request ends in the 404 NotFound answer whose
\* projects_searched is every configured store in search order followed by "web_apis".
C1_ExhaustiveMissIsNotFound ==
    (pc = "done" /\ Holders = {} /\ AllWebApisFailed)
        => response = NotFound(Append(ConfiguredStores, WebApiSentinel))

\* C2 (as stated): when the roll is held by two stores of the search order, a
\* successful answer names the earliest holder, projects_searched is exactly the
\* stores up to and including it, and no later store is asked for the student.
C2_EarliestHolderWins ==
    (pc = "done" /\ response.status = 200 /\ Cardinality(Holders) >= 2)
        => LET first == CHOOSE name \in Holders : \A o \in Holders : Pos(name) <= Pos(o)
           IN  /\ response.body.found_in_project = first
               /\ response.body.projects_searched = StoresUpTo(Pos(first))
               /\ \A i \in 1..Len(StudentLookups) : Pos(StudentLookups[i].store) <= Pos(first)

\* C2 (amended): a successful answer from a store names a holder of the roll; every
\* holder earlier in the search order raised an error while it was asked;
\* projects_searched is exactly the registered stores up to and including the
\* named one, in search order; no later store is asked for the student.
C2_EarliestAnsweringHolderWins ==
    (pc = "done" /\ response.status = 200 /\ response.body.source = "supabase")
        => LET found == response.body.found_in_project
           IN  /\ found \in Holders
               /\ \A name \in Holders : Pos(name) < Pos(found) => Raised(name)
               /\ response.body.projects_searched = StoresUpTo(Pos(found))
               /\ \A i \in 1..Len(StudentLookups) : Pos(StudentLookups[i].store) <= Pos(found)

\* two stores hold the roll, the earlier one raised and the answer names the later
C2_Witness ==
    /\ pc = "done"
    /\ response.status = 200
    /\ Cardinality(Holders) >= 2
    /\ response.body.source = "supabase"
    /\ \E name \in Holders : Pos(name) < Pos(response.body.found_in_project) /\ Raised(name)

\* C8: every request ends as found (200) or as the structured NotFound (404); an
\* error raised by a store lookup, a follow-up lookup or a web API call never
\* reaches the caller as the generic failure (500).
C8_NoGenericFailure ==
    pc = "done" => response.status \in {200, 404}

\* C10: within one query the student lookups come in search order and no store is
\* asked twice; a store that raised or had no match leaves the resolver at the next
\* store with nothing found.
C10_OneLookupPerStore ==
    /\ [](\A i, j \in 1..Len(StudentLookups) :
             i < j => Pos(StudentLookups[i].store) < Pos(StudentLookups[j].store))
    /\ [][(pc = "stores" /\ pc' = "stores") => (idx' = idx + 1 /\ sres' = sres /\ response' = response)]_vars

\* a store raised on the student lookup and a later store was asked afterwards
C10_Witness ==
    \E i, j \in 1..Len(StudentLookups) :
        /\ i < j
        /\ StudentLookups[i].outcome = "raised"
        /\ StudentLookups[j].outcome \in {"empty", "found"}

\* the line holds a block of the roll with "gpa<sem>: <value>" in it
HasBlock(line, roll, sem, value) ==
    \E i \in 1..Len(StudentMatches(line)) :
        /\ StudentMatches(line)[i].roll = roll
        /\ \E j \in 1..Len(GpaMatches(StudentMatches(line)[i].data)) :
              GpaMatches(StudentMatches(line)[i].data)[j] = [sem |-> sem, gpa |-> value]

\* the text lists a subject code in the ref_sub part of the roll's block: on the
\* block's own line, or at the start of the next line when the block's line ends
\* with "ref_sub:"
SubjectListedFor(roll) ==
    \E i \in 1..Len(text) :
        /\ text[i] # <<>>
        /\ text[i][1].k = "roll"
        /\ text[i][1].n = roll
        /\ \/ \E j \in 1..(Len(text[i]) - 1) :
                 text[i][j].k = "refsub" /\ text[i][j + 1].k = "subj"
           \/ /\ text[i][Len(text[i])].k = "refsub"
              /\ i < Len(text)
              /\ text[i + 1] # <<>>
              /\ text[i + 1][1].k = "subj"

\* the entries of the answer for one semester
EntriesFor(sem) ==
    {response.body.resultData[i] : i \in
        {k \in 1..Len(response.body.resultData) :
            response.body.resultData[k].semester = NatStr(sem)}}

\* a transfer that reported success, then a request answered from that project
AnsweredFromTransfer ==
    /\ ipc = "done"
    /\ success
    /\ pc = "done"
    /\ response.status = 200
    /\ response.body.found_in_project = target

\* C3: round trip. After a successful transfer of a gradesheet with header 23106
\* and a block of student 721942 holding gpa4: 3.76, a search for 721942 answered
\* from that project has a semester-4 entry with GPA 3.76 and passed = true.
C3_RoundTrip ==
    ( /\ AnsweredFromTransfer
      /\ roll_no = 721942
      /\ text[1] = HeaderDhaka
      /\ \E i \in 1..Len(text) : HasBlock(text[i], 721942, 4, <<"3",".","7","6">>) )
        => \E entry \in EntriesFor(4) : entry.gpa = <<"3",".","7","6">> /\ entry.passed

\* the value text of a number, compared as a number with the bounds 0 and 4
NumberInRange(txt) ==
    /\ FloatOk(txt)
    /\ 0 <= Float(txt).m
    /\ Float(txt).m <= 4 * Pow10(Float(txt).e)

\* the value the parser kept for (institute, roll, semester)
ParsedValue(code, roll, sem) ==
    DictGet(DictGet(DictGet(parsed, code).students, roll).gpas, sem)

\* C5: every GPA record the transfer emits, for Supabase or for Firestore, is the
\* referred record or a number between 0.0 and 4.0, and it is the value the parser
\* kept for that student and semester; a kept value that is out of range or is no
\* number has no record.
C5_EmittedGpaInRange ==
    /\ \A i \in 1..Len(batch_data) :
          batch_data[i].type = "gpa" =>
            LET d == batch_data[i].data
                v == ParsedValue(d.institute_code, d.roll_number, d.semester)
            IN  IF v = REF THEN d.gpa = None /\ d.is_reference
                ELSE NumberInRange(v) /\ d.gpa = Float(v) /\ ~d.is_reference
    /\ \A i \in 1..Len(firestore_batch) :
          firestore_batch[i].type = "student" =>
            \A e \in firestore_batch[i].data.gpa_data :
                LET v == ParsedValue(firestore_batch[i].inst_code, firestore_batch[i].roll,
                                     e.semester)
                IN  IF v = REF THEN e.gpa = [text |-> REF]
                    ELSE NumberInRange(v) /\ e.gpa = Float(v)

\* the parser kept 4.50 and 3.7.6, and the operation lists were built without them
C5_Witness ==
    /\ \E i \in 1..Len(text) : text[i] = LineOutOfRange
    /\ DictHas(parsed, "23106")
    /\ DictHas(DictGet(parsed, "23106").students, 700015)
    /\ DictHas(DictGet(DictGet(parsed, "23106").students, 700015).gpas, 2)
    /\ ParsedValue("23106", 700015, 2) = <<"4",".","5","0">>
    /\ \/ /\ Len(batch_data) > 0
          /\ \A i \in 1..Len(batch_data) :
                batch_data[i].type = "gpa" => batch_data[i].data.roll_number # 700015
       \/ /\ Len(firestore_batch) > 0
          /\ \E i \in 1..Len(firestore_batch) :
                /\ firestore_batch[i].type = "student"
                /\ firestore_batch[i].roll = 700015
                /\ firestore_batch[i].data.gpa_data = {}

\* C6: a semester parsed as "ref" comes back from search with passed = false and
\* gpa = "ref", and with a non-empty referred-subjects list when the text listed
\* subject codes for that student.
C6_ReferredRoundTrip ==
    AnsweredFromTransfer =>
        \A sem \in MinSemester..MaxSemester :
            ( /\ DictHas(DictGet(parsed, "23106").students, roll_no)
              /\ DictHas(DictGet(DictGet(parsed, "23106").students, roll_no).gpas, sem)
              /\ ParsedValue("23106", roll_no, sem) = REF )
                => \E entry \in EntriesFor(sem) :
                      /\ ~entry.passed
                      /\ entry.gpa = REF
                      /\ SubjectListedFor(roll_no) => entry.result.ref_subjects # {}

\* C9: a batch whose commit failed is committed again later in the same transfer,
\* and the transfer reports failure only when the last attempt of some batch failed.
C9_FailedBatchIsRetried ==
    ipc = "done" =>
        /\ \A i \in 1..Len(attempts) :
              ~attempts[i].committed =>
                  \E j \in (i + 1)..Len(attempts) : attempts[j].batch = attempts[i].batch
        /\ (Len(batch_data) > 0 /\ ~success) =>
              \E i \in 1..Len(attempts) :
                  /\ ~attempts[i].committed
                  /\ \A j \in (i + 1)..Len(attempts) : attempts[j].batch # attempts[i].batch

\* the gradesheet of the continuation-line example
WrappedSheet == <<HeaderDhaka, LineWrapOpen, LineWrapMid, LineWrapClose>>

\* C4: continuation-line recovery. The lines "700014 (gpa4: 3.76, gpa3: 3.54, gpa2:",
\* "3.34, gpa1:", "3.10)" give student 700014 the semesters 1..4 =
\* 3.10, 3.34, 3.54, 3.76.
C4_ContinuationRecovery ==
    (text = WrappedSheet /\ pphase # "first")
        => /\ DictHas(result1, "23106")
           /\ DictHas(DictGet(result1, "23106").students, 700014)
           /\ LET gpas == DictGet(DictGet(result1, "23106").students, 700014).gpas
              IN  /\ Range(gpas.keys) = {1, 2, 3, 4}
                  /\ DictGet(gpas, 1) = <<"3",".","1","0">>
                  /\ DictGet(gpas, 2) = <<"3",".","3","4">>
                  /\ DictGet(gpas, 3) = <<"3",".","5","4">>
                  /\ DictGet(gpas, 4) = <<"3",".","7","6">>

FoundInStore ==
    /\ pc = "done"
    /\ response.status = 200
    /\ response.body.source = "supabase"

CgpaLookups == SelectSeq(lookups, LAMBDA l : l.table = "cgpa_records")

NoCallRaised == \A i \in 1..Len(lookups) : lookups[i].outcome # "raised"

\* the CGPA records a store holds for the student of the answer
CgpaHeld(store) == CgpaRows(store, response.body.instituteData.code, roll_no)

\* cgpaData as built from the CGPA records of one store
CgpaDataFrom(store) ==
    LET rows == SomeOrder(CgpaHeld(store))
    IN  [i \in 1..Len(rows) |-> CgpaResult(rows[i])]

\* C11 (as stated): when the student is found in store S, the first CGPA lookup is
\* made in S, and if S holds a CGPA record for the student the returned CGPA data
\* is the one from S (stated for requests during which no call raised).
C11_CgpaFromFindingStoreFirst ==
    (FoundInStore /\ NoCallRaised)
        => LET S == response.body.found_in_project
           IN  /\ Len(CgpaLookups) > 0
               /\ CgpaLookups[1].store = S
               /\ CgpaHeld(S) # {} => response.body.cgpaData = CgpaDataFrom(S)

\* C11 (amended): when the student is found in a store, the CGPA lookups go through
\* the registered stores in search order from the head of the search order, one
\* lookup per store; a store that raises or holds no CGPA record is passed over, the
\* first store that returns CGPA records ends the loop and its records are the
\* returned CGPA data; with no such store the CGPA data is empty.
C11_CgpaFromEarliestStore ==
    FoundInStore
        => /\ Len(CgpaLookups) <= Len(ConfiguredStores)
           /\ \A i \in 1..Len(CgpaLookups) :
                 /\ CgpaLookups[i].store = ConfiguredStores[i]
                 /\ i < Len(CgpaLookups) => CgpaLookups[i].outcome \in {"empty", "raised"}
                 /\ CgpaLookups[i].outcome = "empty" => CgpaHeld(CgpaLookups[i].store) = {}
                 /\ CgpaLookups[i].outcome = "found"
                       => /\ CgpaHeld(CgpaLookups[i].store) # {}
                          /\ response.body.cgpaData = CgpaDataFrom(CgpaLookups[i].store)
           /\ (\A i \in 1..Len(CgpaLookups) : CgpaLookups[i].outcome # "found")
                 => /\ Len(CgpaLookups) = Len(ConfiguredStores)
                    /\ response.body.cgpaData = <<>>

\* the student was found in a store that holds a CGPA record, no call raised,
\* and the returned CGPA data is that of an earlier store
C11_Witness ==
    /\ FoundInStore
    /\ NoCallRaised
    /\ CgpaHeld(response.body.found_in_project) # {}
    /\ Len(CgpaLookups) > 0
    /\ CgpaLookups[Len(CgpaLookups)].outcome = "found"
    /\ CgpaLookups[Len(CgpaLookups)].store # response.body.found_in_project
    /\ response.body.cgpaData = CgpaDataFrom(CgpaLookups[Len(CgpaLookups)].store)
    /\ response.body.cgpaData # CgpaDataFrom(response.body.found_in_project)

\* the calls made to a store while it was asked for the student
StoreAttempts(name) ==
    SelectSeq(lookups, LAMBDA l : l.store = name
                                  /\ l.table \in {"client", "students", "institutes"})

PriorityOf(api_name) == (CHOOSE a \in Range(WebApis) : a.name = api_name).priority

C13_SemestersAscending ==
    (pc = "done" /\ response.status = 200)
        => \A i, j \in 1..Len(response.body.resultData) :
              i < j => DigitsValue(response.body.resultData[i].semester)
                         < DigitsValue(response.body.resultData[j].semester)

InstituteLookups == SelectSeq(lookups, LAMBDA l : l.table = "institutes")

\* C14: once a store's student lookup returns a match the query ends as found in
\* that store: no later store and no web API is asked, whatever the institute
\* lookup of that store does (no row, or an error); a missing institute only makes
\* the answer's institute name and district "Unknown".
C14_StudentMatchIsTerminal ==
    /\ \A i \in 1..Len(StudentLookups) :
          StudentLookups[i].outcome = "found"
             => /\ i = Len(StudentLookups)
                /\ web_log = <<>>
                /\ pc \in {"handler", "cgpa", "done"}
                /\ sres.project_name = StudentLookups[i].store
    /\ ( /\ FoundInStore
         /\ InstituteLookups # <<>>
         /\ InstituteLookups[Len(InstituteLookups)].outcome = "empty" )
          => /\ response.body.instituteData.name = "Unknown"
             /\ response.body.instituteData.district = "Unknown"

\* the semesters recorded for a student of an institute in the parser's state
RecordedSemesters(st, code, roll) ==
    Range(DictGet(DictGet(st.institutes, code).students, roll).gpas.keys)

\* C15: no line of a parse discards what is recorded: every institute, every
\* student of it and every semester of the student held before a line is still held
\* after it, also when the line is a header with the code of an institute seen
\* before.
C15_HeaderMergesInstitute ==
    [][(ppos >= 1 /\ ppos' = ppos + 1)
         => \A code \in Range(pst.institutes.keys) :
               /\ DictHas(pst'.institutes, code)
               /\ \A roll \in Range(DictGet(pst.institutes, code).students.keys) :
                     /\ DictHas(DictGet(pst'.institutes, code).students, roll)
                     /\ RecordedSemesters(pst, code, roll)
                           \subseteq RecordedSemesters(pst', code, roll)]_vars

\* the number of "gpa<N>: <value>" tokens inside the student blocks of a line
RECURSIVE BlockTokenCount(_)
BlockTokenCount(matches) ==
    IF matches = <<>> THEN 0
    ELSE Len(GpaMatches(Head(matches).data)) + BlockTokenCount(Tail(matches))

\* every "gpa<N>: <value>" token of the line lies inside a student block
AllInBlocks(line) == Len(GpaMatches(line)) = BlockTokenCount(StudentMatches(line))

\* the student holds the value for the semester in the parser's state
Holds(st, roll, sem, gpa) ==
    /\ st.current_inst # NoInst
    /\ DictHas(DictGet(st.institutes, st.current_inst).students, roll)
    /\ DictHas(DictGet(DictGet(st.institutes, st.current_inst).students, roll).gpas, sem)
    /\ DictGet(DictGet(DictGet(st.institutes, st.current_inst).students, roll).gpas, sem) = gpa

\* the line has a block of the roll with the token "gpa<sem>: <gpa>" in it
OwnToken(line, roll, sem, gpa) ==
    \E i \in 1..Len(StudentMatches(line)) :
        /\ StudentMatches(line)[i].roll = roll
        /\ [sem |-> sem, gpa |-> gpa] \in Range(GpaMatches(StudentMatches(line)[i].data))

\* C16: no GPA token is attributed twice. On a student line whose "gpa<N>: <value>"
\* tokens all lie inside student blocks, a token of one student's block is not
\* written into the record of another student: a student who holds the value after
\* the line held it before, or has the token in a block of their own.
C16_NoDoubleAttribution ==
    [][(ppos >= 1 /\ ppos' = ppos + 1 /\ ~HasInst(text[ppos]) /\ AllInBlocks(text[ppos]))
         => \A i \in 1..Len(StudentMatches(text[ppos])) :
              \A t \in Range(GpaMatches(StudentMatches(text[ppos])[i].data)) :
                \A other \in (IF pst'.current_inst = NoInst THEN {}
                              ELSE Range(DictGet(pst'.institutes,
                                                 pst'.current_inst).students.keys)) :
                   ( /\ other # StudentMatches(text[ppos])[i].roll
                     /\ Holds(pst', other, t.sem, t.gpa) )
                       => \/ Holds(pst, other, t.sem, t.gpa)
                          \/ OwnToken(text[ppos], other, t.sem, t.gpa)]_vars

\* the "gpa<N>: <value>" tokens of the student blocks of one line, in reading
\* order, each with the roll of its block
RECURSIVE BlockOccurrences(_)
BlockOccurrences(matches) ==
    IF matches = <<>> THEN <<>>
    ELSE LET m == Head(matches)
             toks == SelectSeq(GpaMatches(m.data), LAMBDA t : SemInRange(t.sem))
         IN  [i \in 1..Len(toks) |-> [roll |-> m.roll, sem |-> toks[i].sem, gpa |-> toks[i].gpa]]
             \o BlockOccurrences(Tail(matches))

RECURSIVE TextOccurrences(_)
TextOccurrences(lines) ==
    IF lines = <<>> THEN <<>>
    ELSE BlockOccurrences(StudentMatches(Head(lines))) \o TextOccurrences(Tail(lines))

\* a gradesheet of one institute: a header, then student lines whose GPA tokens
\* all lie inside student blocks
OneInstituteSheet ==
    /\ text # <<>>
    /\ text[1] = HeaderDhaka
    /\ \A i \in 2..Len(text) : ~HasInst(text[i]) /\ AllInBlocks(text[i])

\* C17: last write wins per (roll, semester). When a gradesheet of one institute
\* gives a value for the same roll and semester more than once, the parse result
\* holds the value of the last such occurrence in reading order.
C17_LastWriteWins ==
    (pphase # "first" /\ OneInstituteSheet)
        => LET occ == TextOccurrences(text)
           IN  \A i, j \in 1..Len(occ) :
                  ( /\ i < j
                    /\ occ[i].roll = occ[j].roll
                    /\ occ[i].sem = occ[j].sem
                    /\ \A k \in (j + 1)..Len(occ) :
                          ~(occ[k].roll = occ[j].roll /\ occ[k].sem = occ[j].sem) )
                      => LET students == DictGet(result1, "23106").students
                         IN  /\ DictHas(students, occ[j].roll)
                             /\ DictHas(DictGet(students, occ[j].roll).gpas, occ[j].sem)
                             /\ DictGet(DictGet(students, occ[j].roll).gpas, occ[j].sem)
                                   = occ[j].gpa

\* the students of the current institute in the parser's state
CurrentRolls(st) ==
    IF st.current_inst = NoInst THEN {}
    ELSE Range(DictGet(st.institutes, st.current_inst).students.keys)

\* C18: cross-student continuation. A "gpa<N>: <value>" token directly followed by a
\* roll number R on the same line is assigned to the recorded student of the current
\* institute with the greatest roll below R, and not to student R.
C18_CrossStudentContinuation ==
    [][(ppos >= 1 /\ ppos' = ppos + 1 /\ ~HasInst(text[ppos]) /\ pst.current_inst # NoInst)
         => \A m \in Range(GpaContinuationFrom(text[ppos], 1)) :
              (m.next_roll # 0 /\ SemInRange(m.sem))
                 => LET below == {r \in CurrentRolls(pst') : r < m.next_roll}
                    IN  below # {}
                          => LET prior == CHOOSE r \in below : \A o \in below : o <= r
                             IN  /\ Holds(pst', prior, m.sem, m.gpa)
                                 /\ Holds(pst', m.next_roll, m.sem, m.gpa)
                                       => \/ Holds(pst, m.next_roll, m.sem, m.gpa)
                                          \/ OwnToken(text[ppos], m.next_roll, m.sem, m.gpa)]_vars

\* C19: in every parse result each roll number appears under exactly one institute.
C19_RollUnderOneInstitute ==
    pphase # "first"
        => \A c1, c2 \in Range(result1.keys) :
              c1 # c2 => Range(DictGet(result1, c1).students.keys)
                           \cap Range(DictGet(result1, c2).students.keys) = {}

\* a line that starts with a bare value followed by ")" or ", ref_sub" or ", }" and
\* holds no roll number and no "gpa<N>:" label
PureContinuation(line) ==
    /\ ContinuationGpaMatch(line)
    /\ \A i \in 1..Len(line) : line[i].k \notin {"roll", "lbl", "inst"}

\* the gpas of a student of the current institute in the parser's state
GpasOf(st, roll) == DictGet(DictGet(st.institutes, st.current_inst).students, roll).gpas

SemesterKeys(institutes) ==
    UNION {UNION {Range(DictGet(DictGet(institutes, code).students, roll).gpas.keys) :
                     roll \in Range(DictGet(institutes, code).students.keys)} :
              code \in Range(institutes.keys)}

\* the labels "gpa<N>" of the text with N outside 1..8
BadLabels(lines) ==
    {lines[i][j].n : <<i, j>> \in {<<a, b>> \in (1..Len(lines)) \X (1..11) :
                                      /\ b <= Len(lines[a])
                                      /\ lines[a][b].k = "lbl"
                                      /\ ~(lines[a][b].n \in MinSemester..MaxSemester)}}

\* C21: every semester key of every student record, in the parser's state after
\* every line and in both parse results, is an integer in 1..8, whichever pass wrote
\* it; a label "gpa<N>" with N outside 1..8 adds no key.
C21_SemesterKeysInRange ==
    /\ SemesterKeys(pst.institutes) \subseteq MinSemester..MaxSemester
    /\ SemesterKeys(result1) \subseteq MinSemester..MaxSemester
    /\ SemesterKeys(result2) \subseteq MinSemester..MaxSemester

\* "700017 (gpa9: 3.90, gpa0: 3.00, gpa2: 3.20)" has been parsed under a header: the
\* result holds student 700017 with semester 2 only
C21_Witness ==
    /\ text = <<HeaderDhaka, LineBadLabel>>
    /\ BadLabels(text) = {9, 0}
    /\ pphase = "second"
    /\ DictHas(DictGet(result1, "23106").students, 700017)
    /\ DictGet(DictGet(result1, "23106").students, 700017).gpas.keys = <<2>>

\* a value that is a float between 0.0 and 4.0
IsNumericGpa(g) == DOMAIN g = {"m", "e"} /\ FloatInRange(g)

\* a record with the field is_reference: referred with no number, or numeric, not
\* marked and with no referred subjects
MarkedShape(d) ==
    /\ "is_reference" \in DOMAIN d
    /\ IF d.is_reference
       THEN d.gpa \in {None, [text |-> REF]}
       ELSE IsNumericGpa(d.gpa) /\ d.ref_subjects = {}

\* the GPA records of the operation list for Supabase
SupabaseGpaRecords ==
    {batch_data[i].data : i \in {j \in 1..Len(batch_data) : batch_data[j].type = "gpa"}}

\* the GPA entries of the operation list for Firestore
FirestoreGpaEntries ==
    UNION {firestore_batch[i].data.gpa_data :
              i \in {j \in 1..Len(firestore_batch) : firestore_batch[j].type = "student"}}

\* C22 as stated: every GPA record the normalization emits, for Supabase or for
\* Firestore, carries is_reference; a numeric record has is_reference = false and no
\* referred subjects, a referred record has no number and is_reference = true.
C22_EveryRecordMarked ==
    \A d \in SupabaseGpaRecords \cup FirestoreGpaEntries : MarkedShape(d)

\* C22 amended: a GPA record for Supabase carries is_reference, true with gpa null
\* and false with a number in 0.0..4.0 and no referred subjects; a GPA entry for
\* Firestore has the fields semester, gpa and ref_subjects only, and its gpa is
\* "ref" or a number in 0.0..4.0 with no referred subjects.
C22_GpaEntryShape ==
    /\ \A d \in SupabaseGpaRecords :
          /\ MarkedShape(d)
          /\ d.is_reference <=> d.gpa = None
    /\ \A e \in FirestoreGpaEntries :
          /\ DOMAIN e = {"semester", "gpa", "ref_subjects"}
          /\ \/ e.gpa = [text |-> REF]
             \/ IsNumericGpa(e.gpa) /\ e.ref_subjects = {}

\* "700014 { gpa2: 3.10, gpa1: ref, ref_sub: 28542(T) }" has been prepared for
\* Firestore: semester 1 is "ref" with the subject, semester 2 is 3.1 without
C22_Witness ==
    /\ text = <<HeaderDhaka, LineRefWhole>>
    /\ ipc = "prepared"
    /\ \E e \in FirestoreGpaEntries :
          e.semester = 1 /\ e.gpa = [text |-> REF] /\ e.ref_subjects # {}
    /\ \E e \in FirestoreGpaEntries :
          e.semester = 2 /\ IsNumericGpa(e.gpa) /\ e.ref_subjects = {}

\* the source gives the parser no institute: the file is missing or cannot be read,
\* or no line of its text holds an institute header
NothingToParse ==
    \/ pdf_file \in {Missing, Unreadable}
    \/ \A i \in 1..Len(text) : ~HasInst(text[i])

\* C23: when the source is missing or unreadable, or no institute header is found,
\* the parser returns the empty mapping, and the transfer built on it ends with
\* False and has submitted no write: no operation list, no batch attempt, every
\* table of every project as it was.
C23_EmptySourceFailsWithoutWrite ==
    NothingToParse =>
        /\ parsed = EmptyDict
        /\ ipc \in {"start", "done"}
        /\ ipc = "done" => ~success
        /\ batch_data = <<>> /\ firestore_batch = <<>>
        /\ attempts = <<>>
        /\ \A name \in KnownNames : db[name] = EmptyDB

\* a readable text with a student line and no header has been transferred to a
\* configured project: the transfer has ended with False
C23_Witness ==
    /\ pdf_file = Readable
    /\ text = <<LineTarget>>
    /\ target # NoProject
    /\ ipc = "done"
    /\ ~success
    /\ parsed = EmptyDict

\* the chunks put one after the other
RECURSIVE Concat(_, _)
Concat(seqs, c) == IF c > Len(seqs) THEN <<>> ELSE seqs[c] \o Concat(seqs, c + 1)

\* parallel_batch_write is running or has returned
InParallelWrite == ipc = "parallel" \/ (ipc = "done" /\ chunks # <<>> /\ batch_data = <<>>)

\* C24: parallel write. The chunks are cut from the operation list one after the
\* other, none empty, so that they are pairwise disjoint and hold every operation
\* exactly once; the result is returned only when every worker has finished and its
\* result was added; and, whatever the order in which the workers ran, finished and
\* were collected, the result is True exactly when the commit of every chunk
\* succeeded.
C24_ParallelWrite ==
    InParallelWrite =>
        /\ Concat(chunks, 1) = firestore_batch
        /\ \A c \in DOMAIN chunks : chunks[c] # <<>>
        /\ DOMAIN wstate = DOMAIN chunks
        /\ collected \subseteq Finished
        /\ ipc = "done" =>
              /\ Finished = DOMAIN chunks
              /\ collected = DOMAIN chunks
              /\ success <=> \A c \in DOMAIN chunks : wstate[c] = "committed"

\* two workers ran at the same time, the commit of one chunk raised and those of the
\* others succeeded: the write has returned False with the other chunks stored
C24_Witness ==
    /\ ipc = "done"
    /\ once = None
    /\ Len(chunks) >= 3
    /\ wstate[1] = "committed"
    /\ wstate[2] = "failed"
    /\ wstate[3] = "committed"
    /\ ~success
    /\ fs["students"] # {}

\* no table holds two rows with one conflict key, no collection two documents with
\* one id
OneRecordPerKey ==
    /\ \A name \in KnownNames : \A t \in Range(TableNames) :
          \A r1, r2 \in db[name][t] :
              ConflictKey(t, r1) = ConflictKey(t, r2) => r1 = r2
    /\ \A c \in Collections : \A d1, d2 \in fs[c] : d1.id = d2.id => d1 = d2

\* C25: the ingest is idempotent. From the moment the same tool is run a second time
\* on a gradesheet whose first transfer went through, and whatever happens to the
\* commits of the second run, the tables of the target project and the Firestore
\* documents are what the first run left; and no table ever holds two records with
\* the same identity key.
C25_ReingestIsIdempotent ==
    /\ OneRecordPerKey
    /\ once # None =>
          /\ fs = once.docs
          /\ target # NoProject => db[target] = once.tables

\* the second transfer to a Supabase project has written every batch and returned
\* True, over the institute, student and GPA records of the first
C25_Witness ==
    /\ once # None
    /\ once.tool = "supabase"
    /\ ipc = "done"
    /\ success
    /\ Len(attempts) >= 2
    /\ db[target]["gpa_records"] # {}
    /\ db[target]["students"] # {}

\* the document of an operation is in its collection with the operation's data
Applied(op) == \A i \in DOMAIN DocOf(op) : DocOf(op)[i].doc \in fs[DocOf(op)[i].collection]

\* C26: when a batch write to Firestore, sequential or parallel, has returned True,
\* every operation of the operation list was applied to the store.
C26_TrueMeansAllApplied ==
    (ipc = "done" /\ success /\ firestore_batch # <<>>)
        => \A i \in 1..Len(firestore_batch) :
              /\ DocOf(firestore_batch[i]) # <<>>
              /\ Applied(firestore_batch[i])

\* the number of batches of size operations that a list of total operations gives
BatchCount(total, size) == (total + size - 1) \div size

\* every operation of the batch that starts after position first is in the store
BatchStored(first, size) ==
    IF batch_data # <<>>
    THEN \A i \in (first + 1)..Min(first + size, Len(batch_data)) :
            batch_data[i].data \in db[target][TableOfType(batch_data[i].type)]
    ELSE \A i \in (first + 1)..Min(first + size, Len(firestore_batch)) :
            i \notin skipped => Applied(firestore_batch[i])

\* the log of a sequential batch write over total operations in batches of size
SequentialLog(total, size) ==
    /\ \A i \in 1..Len(attempts) : attempts[i].batch = (i - 1) * size
    /\ Len(attempts) <= BatchCount(total, size)
    /\ ipc = "done" =>
          /\ Len(attempts) = BatchCount(total, size)
          /\ (\E i \in 1..Len(attempts) : ~attempts[i].committed) => ~success
    /\ \A i \in 1..Len(attempts) :
          attempts[i].committed => BatchStored(attempts[i].batch, size)

\* C27: a batch whose commit fails does not stop the sequential batch write, to
\* Supabase or to Firestore: the batches are submitted one after the other in list
\* order, each once and none left out, also after a failed one; the operations of
\* every committed batch, before and after the failed one, are in the store; and the
\* run with a failed batch returns False.
C27_FailedBatchDoesNotStop ==
    /\ (ipc \in {"writing", "done"} /\ batch_data # <<>>)
          => SequentialLog(Len(batch_data), BatchSize)
    /\ (ipc \in {"fswriting", "done"} /\ firestore_batch # <<>> /\ ~InParallelWrite)
          => SequentialLog(Len(firestore_batch), FirestoreBatchSize)

\* a transfer to Supabase whose first batch failed: the second batch was submitted
\* and is stored, and the transfer has returned False
C27_Witness ==
    /\ ipc = "done"
    /\ batch_data # <<>>
    /\ Len(attempts) = 2
    /\ ~attempts[1].committed
    /\ attempts[2].committed
    /\ BatchStored(attempts[2].batch, BatchSize)
    /\ db[target]["gpa_records"] # {}
    /\ ~success

\* ------------------------------------------------------- the project manager
\* the loop over the search order ended without an answer from a store
StoresExhausted == pc \in {"web", "webdone"}

\* C28 (as stated): every project of the manager, the ones added with add_project
\* included, also after save_config and a new load, is queried by a search that no
\* store answers: its name is in projects_tried.
C28_AddedProjectIsSearched ==
    StoresExhausted => \A name \in projects : name \in Range(projects_tried)

CurrentIsNoneOrKey == current_project = NoProject \/ current_project \in projects

\* C29: the current project stays None or a key of projects through every
\* add_project, remove_project and set_current_project (and through saving and
\* loading the configuration); set_current_project with a name that is no key of
\* projects leaves the current project unchanged, and remove_project of the current
\* project sets it to None.
C29_CurrentProjectIsNoneOrKey ==
    /\ []CurrentIsNoneOrKey
    /\ [][\A name \in AdminNames :
            /\ (SetCurrentProject /\ SetCurrentProjectTo(name) /\ name \notin projects)
                  => current_project' = current_project
            /\ (RemoveProject /\ RemoveProjectNamed(name) /\ name = current_project)
                  => current_project' = NoProject]_vars

\* the second project was made current and saved as such, and was then removed:
\* the manager has no current project, and the project is no key any more
C29_Witness ==
    /\ config_file.current_project = ConfiguredOrder[2]
    /\ ConfiguredOrder[2] \notin projects
    /\ current_project = NoProject

\* ------------------------------------------------------- the passed flag
\* C30 (as stated): in every semester entry of a search response, whichever source
\* the student came from, passed is FALSE exactly when the entry's gpa is "ref" and
\* TRUE exactly when it is a number.
C30_PassedIffNumeric ==
    (pc = "done" /\ response.status = 200)
        => \A i \in 1..Len(response.body.resultData) :
              response.body.resultData[i].passed = (response.body.resultData[i].gpa # REF)

====
